---- MODULE Spec2Model ----
(***************************************************************************)
(* Transaction editing and split-expansion state machine of the ledger     *)
(* grid (packages/desktop-client/src/hooks/useActions.ts).                 *)
(*                                                                         *)
(* Part I models SplitsExpandedProvider (the split-expansion reducer, its  *)
(* settle timer and its cache write-back) together with the visible-row    *)
(* filter of TransactionTable.  One action is one dispatched reducer       *)
(* action (or one change of the transaction list) followed by the render   *)
(* it causes and by the effects of that render, which React runs to        *)
(* completion before the next event is handled.                            *)
(***************************************************************************)
EXTENDS Integers, Sequences, FiniteSets, TLC

\* JavaScript null / undefined for an id.
NoId == "null"

\* Bound of the model: settle timers that may be outstanding at once.
MaxTimers == 2

Modes == {"expand", "collapse"}

\* Rows of props.transactions: a split family p1 (two children), a plain
\* row n1 and a split family p2 (one child).
Row(id, parent) == [id |-> id, parent_id |-> parent]

ListA ==
    << Row("p1", NoId), Row("c1a", "p1"), Row("c1b", "p1"),
       Row("n1", NoId), Row("p2", NoId), Row("c2a", "p2") >>

ListB ==
    << Row("n1", NoId), Row("p2", NoId), Row("c2a", "p2"),
       Row("p1", NoId), Row("c1a", "p1"), Row("c1b", "p1") >>

\* Split parents of the committed list whose children do not add up to
\* their amount (the rows that carry a split-balance error).
UnbalancedParents == {"p1"}

\* The lists the owner of the table may pass as props.transactions.
TxLists == {ListA, ListB}

\* Ids a caller passes to toggle-split / open-split (split parents).
ParentIds == {"p1", "p2"}

\* Anchor ids a caller passes to switch-mode: a parent, a child, an id that
\* is in no list, or none at all.
AnchorIds == {"p1", "c1b", "p2", "zz", NoId}

VARIABLES
    state,               \* useReducer state {mode, ids, transitionId}
    timers,              \* settle timers scheduled and not yet fired
    cachedState,         \* state.app.lastSplitState as last written
    wrote,               \* the last step dispatched SET_LAST_SPLIT_STATE
    propsTransactions,   \* props.transactions
    prevSplitsExpanded,  \* prevSplitsExpanded.current
    transactions,        \* the memoised, filtered row list
    lastAct,             \* history: the reducer action handled last
    preSwitch,           \* history: the state just before the running transition
    two,                 \* history: switch-mode calls since the last finish
    hist,                \* history: the last toggles and splits (SpecAlg only)
    props,               \* the other props of TransactionTable
    newTransactions,     \* the staging buffer as of the last render
    queued,              \* setNewTransactions value awaiting the next render
    phase,               \* "idle", "saved" (onSave ran in this event), "render"
    shouldAdd,           \* shouldAdd.current
    savePending,         \* savePending.current
    afterSaveFunc,       \* afterSaveFunc.current
    rulesInFlight,       \* draft saves awaiting props.onApplyRules
    commitInFlight,      \* committed saves handed to props.onSave, unsettled
    newNavigator,        \* editing position in the draft region
    tableNavigator,      \* editing position in the committed region
    nSaves,              \* saves started so far
    nConts,              \* continuations handed to afterSave so far
    lastRan,             \* history: the continuation the last step ran
    lastCall             \* history: the last call of a collaborator

expVars ==
    << state, timers, cachedState, wrote, lastAct, preSwitch, two, hist >>

filterVars == << propsTransactions, prevSplitsExpanded, transactions >>

saveVars ==
    << props, newTransactions, queued, phase, shouldAdd, savePending,
       afterSaveFunc, rulesInFlight, commitInFlight, newNavigator,
       tableNavigator, nSaves, nConts, lastRan, lastCall >>

vars == << expVars, filterVars, saveVars >>

-----------------------------------------------------------------------------
(* useSplitsExpanded: the effective expansion of a parent id.              *)

expandedIgnoringMode(s, id) == id \in s.ids

expanded(s, id) ==
    IF s.mode = "collapse" THEN id \notin s.ids ELSE id \in s.ids

-----------------------------------------------------------------------------
(* The reducer of SplitsExpandedProvider, one operator per case.           *)

ToggleSplitStale(s, id) ==
    [s EXCEPT !.ids = IF id \in s.ids THEN s.ids ELSE s.ids \cup {id}]

ToggleSplitAddOnly(s, id) == [s EXCEPT !.ids = s.ids \cup {id}]

ToggleSplit(s, id) ==
    [s EXCEPT !.ids = IF id \in s.ids THEN s.ids \ {id} ELSE s.ids \cup {id}]

OpenSplitAlwaysAdd(s, id) == [s EXCEPT !.ids = s.ids \cup {id}]

OpenSplit(s, id) ==
    [s EXCEPT !.ids = IF s.mode = "collapse" THEN s.ids \ {id}
                                             ELSE s.ids \cup {id}]

SetMode(s, m) ==
    [s EXCEPT !.mode = m, !.ids = {}, !.transitionId = NoId]

SwitchModeUnguarded(s, id) ==
    [mode |-> IF s.mode = "expand" THEN "collapse" ELSE "expand",
     transitionId |-> id,
     ids |-> {}]

SwitchModeKeepIds(s, id) ==
    IF s.transitionId # NoId
    THEN s
    ELSE [s EXCEPT !.mode = IF s.mode = "expand" THEN "collapse" ELSE "expand",
                   !.transitionId = id]

SwitchMode(s, id) ==
    IF s.transitionId # NoId
    THEN s   \* you can only transition once at a time
    ELSE [mode |-> IF s.mode = "expand" THEN "collapse" ELSE "expand",
          transitionId |-> id,
          ids |-> {}]

FinishSwitchMode(s) == [s EXCEPT !.transitionId = NoId]

reducer(s, action) ==
    CASE action.type = "toggle-split" -> ToggleSplit(s, action.id)
      [] action.type = "open-split" -> OpenSplit(s, action.id)
      [] action.type = "set-mode" -> SetMode(s, action.mode)
      [] action.type = "switch-mode" -> SwitchMode(s, action.id)
      [] action.type = "finish-switch-mode" -> FinishSwitchMode(s)

\* The reducer hands back the very object it was given only when it drops
\* a switch-mode; React then renders nothing and runs no effect.
SameObject(s, action) ==
    action.type = "switch-mode" /\ s.transitionId # NoId

-----------------------------------------------------------------------------
(* The two effects of SplitsExpandedProvider.                              *)

\* Timers the settle-timer effect schedules after a render that took the
\* state from old to new (dependency: state.transitionId).
TimerEffectOnEverySwitch(old, new) == IF new.mode # old.mode THEN 1 ELSE 0

TimerEffectNever(old, new) == 0

TimerEffect(old, new) ==
    IF new.transitionId # old.transitionId /\ new.transitionId # NoId
    THEN 1 ELSE 0

\* Whether the cache effect (dependency: state) writes the new state.
CacheWritesAlways(new) == TRUE

CacheWrites(new) == new.transitionId = NoId

-----------------------------------------------------------------------------
(* The visible-row filter of TransactionTable (useMemo).                   *)

\* Array.prototype.findIndex, 0-based, -1 when no row has the id.
FindIndex(list, id) ==
    IF \E i \in 1..Len(list) : list[i].id = id
    THEN (CHOOSE i \in 1..Len(list) :
             /\ list[i].id = id
             /\ \A j \in 1..(i - 1) : list[j].id # id) - 1
    ELSE -1

\* Array.prototype.filter with a predicate on (row, 0-based index).
RECURSIVE FilterFrom(_, _, _)
FilterFrom(list, keep(_, _), i) ==
    IF i > Len(list) THEN << >>
    ELSE (IF keep(list[i], i - 1) THEN << list[i] >> ELSE << >>)
         \o FilterFrom(list, keep, i + 1)

\* prevSplitsExpanded.current before the first computation of the filter.
NullRef == [mode |-> NoId, ids |-> {}, transitionId |-> NoId]

KeepFromSecondRowPastAnchor(s, prev, list, t, idx) ==
    IF s.transitionId # NoId /\ t.parent_id # NoId
    THEN IF idx >= FindIndex(list, s.transitionId) + 2
         THEN expanded(s, t.parent_id)
         ELSE prev = NullRef \/ expanded(prev, t.parent_id)
    ELSE t.parent_id = NoId \/ expanded(s, t.parent_id)

KeepStaleWhenSettled(s, prev, list, t, idx) ==
    IF t.parent_id # NoId /\ prev # NullRef
    THEN expanded(prev, t.parent_id)
    ELSE TRUE

\* The predicate the filter applies to row t at index idx; prev is
\* prevSplitsExpanded.current.
Keep(s, prev, list, t, idx) ==
    IF s.transitionId # NoId
    THEN IF t.parent_id # NoId
         THEN IF idx >= FindIndex(list, s.transitionId)
              THEN expanded(s, t.parent_id)
              ELSE IF prev # NullRef
                   THEN expanded(prev, t.parent_id)
                   ELSE TRUE
         ELSE TRUE
    ELSE IF t.parent_id # NoId
         THEN expanded(s, t.parent_id)
         ELSE TRUE

FilterTransactions(s, prev, list) ==
    LET keep(t, idx) == Keep(s, prev, list, t, idx)
    IN  FilterFrom(list, keep, 1)

-----------------------------------------------------------------------------
(***************************************************************************)
(* Part II: the staging buffer of TransactionTable, its save pipeline and  *)
(* the after-save continuation queue.  An event handler runs to            *)
(* completion; the state it sets (setNewTransactions, forceRerender) is    *)
(* applied by the render that follows, modelled by the action Render,      *)
(* which also runs the effects of that render.  A key press on an edited   *)
(* field first saves the field (onSave) and then reaches the Enter handler *)
(* of its region within the same event, before that render.                *)
(***************************************************************************)

\* Bounds of the model.
MaxSaves == 1        \* saves started in one behaviour
MaxConts == 2        \* continuations handed to afterSave in one behaviour
MaxRows == 3         \* rows of a draft family that is split once more

\* Nullable values: null is the empty sequence, a value v is << v >>.
Null == << >>
Some(v) == << v >>
num(a) == IF a = Null THEN 0 ELSE a[1]

\* Ids of the draft children, in the order they are created; the id the
\* collaborator props.onAddSplit returns for a new committed child.
ChildIds ==
    << "temp/1", "temp/2", "temp/3", "temp/4", "temp/5", "temp/6",
       "temp/7", "temp/8" >>
NewCommittedId == "c1c"

currentDay == "today"

isTemporaryId(id) ==
    id = "temp" \/ \E i \in 1..Len(ChildIds) : ChildIds[i] = id

isPreviewId(id) == id = "preview/1"

\* The id a new draft child gets: one that no row of the buffer, no save
\* in flight, no navigator and no waiting continuation refers to.
FreshChildId(nt) ==
    LET used == {nt[i].id : i \in 1..Len(nt)}
                   \cup {s.tx.id : s \in rulesInFlight}
                   \cup {newNavigator.editingId, afterSaveFunc.editingId}
    IN  ChildIds[CHOOSE i \in 1..Len(ChildIds) :
                    /\ ChildIds[i] \notin used
                    /\ \A j \in 1..(i - 1) : ChildIds[j] \in used]

makeTemporaryUnnamed(currentAccountId, currentCategoryId, lastDate) ==
    << [id |-> "new",
        date |-> IF lastDate # NoId THEN lastDate ELSE currentDay,
        account |-> currentAccountId,
        category |-> currentCategoryId,
        cleared |-> FALSE,
        amount |-> Null,
        parent_id |-> NoId,
        is_parent |-> FALSE,
        error |-> Null] >>

makeTemporaryTransactions(currentAccountId, currentCategoryId, lastDate) ==
    << [id |-> "temp",
        date |-> IF lastDate # NoId THEN lastDate ELSE currentDay,
        account |-> currentAccountId,
        category |-> currentCategoryId,
        cleared |-> FALSE,
        amount |-> Null,
        parent_id |-> NoId,
        is_parent |-> FALSE,
        error |-> Null] >>

isLastChild(list, index) ==
    /\ index >= 0 /\ index < Len(list)
    /\ list[index + 1].parent_id # NoId
    /\ \/ index + 2 > Len(list)
       \/ list[index + 2].parent_id # list[index + 1].parent_id

\* getFields of TransactionTable; a row is a child when it has a parent id.
AllFields ==
    << "select", "date", "account", "payee", "notes", "category",
       "debit", "credit", "cleared" >>

ChildFields == << "select", "payee", "notes", "category", "debit", "credit" >>

getFieldsChildAsParent(item, p) ==
    LET shown(f) == /\ (p.showAccount \/ f # "account")
                    /\ (p.showCategory \/ f # "category")
        fields == IF isPreviewId(item.id) THEN << "select", "cleared" >>
                  ELSE SelectSeq(AllFields, shown)
    IN  IF isTemporaryId(item.id) THEN Tail(fields) ELSE fields

getFieldsSelectOnDraft(item, p) ==
    LET shown(f) == /\ (p.showAccount \/ f # "account")
                    /\ (p.showCategory \/ f # "category")
    IN  IF isPreviewId(item.id) THEN << "select", "cleared" >>
        ELSE IF item.parent_id # NoId THEN ChildFields
        ELSE SelectSeq(AllFields, shown)

getFields(item, p) ==
    LET shown(f) == /\ (p.showAccount \/ f # "account")
                    /\ (p.showCategory \/ f # "category")
        byKind == IF item.parent_id # NoId
                  THEN ChildFields
                  ELSE SelectSeq(AllFields, shown)
        fields == IF isPreviewId(item.id) THEN << "select", "cleared" >>
                  ELSE byKind
    IN  IF isTemporaryId(item.id) THEN Tail(fields) ELSE fields

\* The table navigator's onEdit (components/table): move the editing focus
\* to (item, field) when field belongs to the item's field set.
onEdit(nav, item, field, p) ==
    IF \E i \in 1..Len(getFields(item, p)) : getFields(item, p)[i] = field
    THEN [editingId |-> item.id, focusedField |-> field]
    ELSE nav

-----------------------------------------------------------------------------
(* The structural operations of loot-core/shared/transactions on the       *)
(* staging buffer, which holds one family: the root and its children.      *)

RECURSIVE SumAmounts(_, _)
SumAmounts(seq, i) ==
    IF i > Len(seq) THEN 0 ELSE num(seq[i].amount) + SumAmounts(seq, i + 1)

\* The split-balance error of the family: the difference between the
\* amount of the root and the sum of its children, on the root and on the
\* first child.
recalculateSplit(seq) ==
    LET difference == num(seq[1].amount) - SumAmounts(seq, 2)
        error == IF seq[1].is_parent /\ difference # 0
                 THEN Some(difference) ELSE Null
    IN  [i \in 1..Len(seq) |->
            [seq[i] EXCEPT !.error = IF i <= 2 THEN error ELSE Null]]

makeChild(parent, id) ==
    [id |-> id,
     date |-> parent.date,
     account |-> parent.account,
     category |-> NoId,
     cleared |-> parent.cleared,
     amount |-> Null,
     parent_id |-> parent.id,
     is_parent |-> FALSE,
     error |-> Null]

updateTransaction(seq, transaction) ==
    [data |-> recalculateSplit(
                 [i \in 1..Len(seq) |->
                     IF seq[i].id = transaction.id THEN transaction
                                                   ELSE seq[i]]),
     added |-> << >>]

splitTransaction(seq, id, newId) ==
    LET child == makeChild(seq[1], newId)
        root == [seq[1] EXCEPT !.is_parent = TRUE]
    IN  [data |-> recalculateSplit(<< root >> \o Tail(seq) \o << child >>),
         added |-> << child >>]

addSplitTransaction(seq, id, newId) ==
    LET child == makeChild(seq[1], newId)
    IN  [data |-> recalculateSplit(seq \o << child >>),
         added |-> << child >>]

WithoutRow(seq, id) ==
    SelectSeq(seq, LAMBDA t : t.id # id /\ t.parent_id # id)

deleteTransaction(seq, id) ==
    [data |-> IF WithoutRow(seq, id) = << >>
              THEN << >> ELSE recalculateSplit(WithoutRow(seq, id)),
     added |-> << >>]

-----------------------------------------------------------------------------
(* afterSave and the continuations of onCheckNewEnter and onCheckEnter.    *)

NoFunc == [n |-> 0, kind |-> "none", editingId |-> NoId,
           focusedField |-> NoId, map |-> << >>, waits |-> {}, over |-> 0]

\* History of one step: the collaborator the commit effect or a handler
\* called (fn, with its argument arg, and whether a draft save was in
\* flight), and the id props.onAddSplit was called with.
NoCall == [fn |-> "none", inFlight |-> FALSE, arg |-> << >>,
           addSplit |-> << >>]

Call(fn, inFlight, arg) ==
    [fn |-> fn, inFlight |-> inFlight, arg |-> arg, addSplit |-> << >>]

\* History of one step: the continuation it ran (n: its serial, kind: its
\* region, editingId and focusedField: the cell edited when Enter was
\* pressed, did: the branch it took, at: the buffer it read).
NoRan == [n |-> 0, early |-> FALSE, queued |-> FALSE, over |-> 0,
          kind |-> "none", did |-> "none", editingId |-> NoId,
          focusedField |-> NoId, at |-> << >>]

afterSaveKeepFirst(pending, slot, func) ==
    IF pending
    THEN [slot |-> IF slot = NoFunc THEN func ELSE slot, run |-> FALSE]
    ELSE [slot |-> slot, run |-> TRUE]

\* afterSave(func): what afterSaveFunc.current becomes and whether func is
\* run at once.
afterSave(pending, slot, func) ==
    IF pending
    THEN [slot |-> func, run |-> FALSE]
    ELSE [slot |-> slot, run |-> TRUE]

\* What a handler or an effect leaves behind: the buffer it passed to
\* setNewTransactions (or Null), shouldAdd.current, both navigators, the
\* number of draft children and the collaborator it called last.
Outcome(q, sa, nNav, tNav, call) ==
    [queued |-> q, shouldAdd |-> sa, newNav |-> nNav, tableNav |-> tNav,
     call |-> call]

onSplitDraftKeepsBuffer(nt, id, o, p) ==
    LET r == splitTransaction(nt, id, FreshChildId(nt))
    IN  [o EXCEPT !.newNav = IF nt[1].amount = Null
                             THEN onEdit(o.newNav, nt[1], "debit", p)
                             ELSE onEdit(o.newNav, r.added[1],
                                         o.newNav.focusedField, p),
                  !.call = Call("onSplit", FALSE, << id >>)]

\* onSplit(id) for a draft id, with latestState.current.newTransactions.
onSplitDraft(nt, id, o, p) ==
    LET r == splitTransaction(nt, id, FreshChildId(nt))
    IN  [o EXCEPT !.queued = Some(r.data),
                  !.newNav = IF nt[1].amount = Null
                             THEN onEdit(o.newNav, nt[1], "debit", p)
                             ELSE onEdit(o.newNav, r.added[1],
                                         o.newNav.focusedField, p),
                  !.call = Call("onSplit", FALSE, << id >>)]

onAddSplitDraftDebitIfUnset(nt, id, o, p) ==
    LET r == addSplitTransaction(nt, id, FreshChildId(nt))
    IN  [o EXCEPT !.queued = Some(r.data),
                  !.newNav = IF nt[1].amount = Null
                             THEN onEdit(o.newNav, nt[1], "debit", p)
                             ELSE onEdit(o.newNav, r.added[1],
                                         o.newNav.focusedField, p)]

\* onAddSplit(id) for a draft id, with latestState.current.newTransactions.
onAddSplitDraft(nt, id, o, p) ==
    LET r == addSplitTransaction(nt, id, FreshChildId(nt))
    IN  [o EXCEPT !.queued = Some(r.data),
                  !.newNav = onEdit(o.newNav, r.added[1],
                                    o.newNav.focusedField, p)]

onAddSplitCommittedIntoBuffer(list, id, o, p) ==
    [onAddSplitDraft(newTransactions, "temp", o, p)
        EXCEPT !.call = [o.call EXCEPT !.addSplit = << id >>]]

\* onAddSplit(id) for a committed id: delegated to props.onAddSplit.
onAddSplitCommitted(list, id, o, p) ==
    [o EXCEPT !.tableNav =
                 onEdit(o.tableNav,
                        Row(NewCommittedId,
                            list[FindIndex(list, id) + 1].parent_id),
                        o.tableNav.focusedField, p),
              !.call = [o.call EXCEPT !.addSplit = << id >>]]

NewEnterBranchErrorFirstRowOnly(c, nt) ==
    LET lastTransaction == nt[Len(nt)]
    IN  IF nt[1].error # Null /\ c.editingId = nt[1].id
        THEN "addSplit"
        ELSE IF c.editingId = lastTransaction.id THEN "commit" ELSE "none"

\* The branch the continuation of onCheckNewEnter takes.
NewEnterBranch(c, nt) ==
    LET lastTransaction == nt[Len(nt)]
        isSplit == lastTransaction.parent_id # NoId
                      \/ lastTransaction.is_parent
    IN  IF nt[1].error # Null /\ c.editingId = lastTransaction.id
        THEN "addSplit"
        ELSE IF /\ c.editingId = lastTransaction.id
                /\ (~isSplit \/ lastTransaction.error = Null)
             THEN "commit"
             ELSE "none"

\* The continuation of onCheckNewEnter, run with latestState.current.
RunNewEnter(c, nt, o, p) ==
    CASE NewEnterBranch(c, nt) = "addSplit" ->
            onAddSplitDraft(nt, nt[Len(nt)].id, o, p)
      [] NewEnterBranch(c, nt) = "commit" -> [o EXCEPT !.shouldAdd = TRUE]
      [] OTHER -> o

\* The continuation of onCheckEnter: list is latestState.current
\* .transactions, c.map the rows of the transactionMap it closed over.
EnterBranchAnyChild(c, list) ==
    LET idx == FindIndex(list, c.editingId)
        parentId == IF idx >= 0 THEN list[idx + 1].parent_id ELSE NoId
    IN  IF parentId \in UnbalancedParents /\ c.focusedField # "select"
        THEN "addSplit" ELSE "none"

\* The branch the continuation of onCheckEnter takes.
EnterBranch(c, list) ==
    LET idx == FindIndex(list, c.editingId)
        parentId == IF idx >= 0 THEN list[idx + 1].parent_id ELSE NoId
        parent == \E i \in 1..Len(c.map) : c.map[i].id = parentId
    IN  IF /\ isLastChild(list, idx)
           /\ parent
           /\ parentId \in UnbalancedParents
           /\ c.focusedField # "select"
        THEN "addSplit" ELSE "none"

RunEnter(c, list, o, p) ==
    IF EnterBranch(c, list) = "addSplit"
    THEN onAddSplitCommitted(list, c.editingId, o, p)
    ELSE o

RunContinuation(c, nt, list, o, p) ==
    IF c.kind = "new" THEN RunNewEnter(c, nt, o, p)
                      ELSE RunEnter(c, list, o, p)

\* History: what running c is recorded as.
Ran(c, nt, list, early, wasQueued) ==
    [n |-> c.n, early |-> early, queued |-> wasQueued,
     over |-> IF wasQueued THEN c.over ELSE 0,
     kind |-> c.kind,
     editingId |-> c.editingId,
     focusedField |-> c.focusedField,
     did |-> IF c.kind = "new" THEN NewEnterBranch(c, nt)
                               ELSE EnterBranch(c, list),
     at |-> IF c.kind = "new" THEN nt ELSE << >>]

-----------------------------------------------------------------------------
(* Initial state: the provider and the table have mounted and their mount  *)
(* effects have run (the cache effect wrote the initial, settled state).   *)

InitialState(m) == [mode |-> m, ids |-> {}, transitionId |-> NoId]

NoTwo == [n |-> 0, id |-> NoId, modeBefore |-> "expand", setMode |-> FALSE]

Init ==
    \E m \in Modes, l \in TxLists :
        /\ state = InitialState(m)
        /\ timers = 0
        /\ cachedState = InitialState(m)
        /\ wrote = TRUE
        /\ propsTransactions = l
        /\ prevSplitsExpanded = InitialState(m)
        /\ transactions = FilterTransactions(InitialState(m), NullRef, l)
        /\ lastAct = [type |-> "mount", id |-> NoId]
        /\ preSwitch = InitialState(m)
        /\ two = NoTwo
        /\ hist = << >>
        /\ props = [showAccount |-> TRUE, showCategory |-> TRUE,
                    onApplyRules |-> FALSE, currentAccountId |-> NoId,
                    currentCategoryId |-> NoId, isAdding |-> FALSE]
        /\ newTransactions = makeTemporaryTransactions(NoId, NoId, NoId)
        /\ queued = Null
        /\ phase = "idle"
        /\ shouldAdd = FALSE
        /\ savePending = FALSE
        /\ afterSaveFunc = NoFunc
        /\ rulesInFlight = {}
        /\ commitInFlight = {}
        /\ newNavigator = [editingId |-> "temp", focusedField |-> "date"]
        /\ tableNavigator = [editingId |-> NoId, focusedField |-> NoId]
        /\ nSaves = 0
        /\ nConts = 0
        /\ lastRan = NoRan
        /\ lastCall = NoCall

-----------------------------------------------------------------------------
(* History of switch-mode calls, kept for the statements only.             *)

NextTwo(action) ==
    CASE action.type = "finish-switch-mode" -> NoTwo
      [] action.type = "set-mode" ->
            IF two.n = 0 THEN two ELSE [two EXCEPT !.setMode = TRUE]
      [] action.type = "switch-mode" ->
            IF two.n = 0
            THEN [n |-> 1, id |-> action.id, modeBefore |-> state.mode,
                  setMode |-> FALSE]
            ELSE [two EXCEPT !.n = 2]
      [] OTHER -> two

-----------------------------------------------------------------------------
(* dispatch(action): the reducer, then the render and its effects.         *)

DispatchCore(action) ==
    LET new == reducer(state, action)
        same == SameObject(state, action)
        fired == IF action.type = "finish-switch-mode" THEN 1 ELSE 0
    IN  /\ state' = new
        /\ timers' = timers - fired + (IF same THEN 0 ELSE TimerEffect(state, new))
        /\ lastAct' = [type |-> action.type, id |-> action.id]
        /\ two' = NextTwo(action)
        /\ IF same
           THEN /\ wrote' = FALSE
                /\ UNCHANGED << cachedState, prevSplitsExpanded,
                                transactions, preSwitch >>
           ELSE /\ wrote' = CacheWrites(new)
                /\ cachedState' = IF CacheWrites(new) THEN new ELSE cachedState
                /\ transactions' =
                      FilterTransactions(new, prevSplitsExpanded,
                                         propsTransactions)
                /\ prevSplitsExpanded' = new
                /\ preSwitch' =
                      IF state.transitionId = NoId /\ new.transitionId # NoId
                      THEN state ELSE preSwitch
        /\ UNCHANGED propsTransactions

Dispatch(action) ==
    /\ DispatchCore(action)
    /\ UNCHANGED << saveVars, hist >>

toggle(id) ==
    Dispatch([type |-> "toggle-split", id |-> id])

openOnSplit(id) ==
    Dispatch([type |-> "open-split", id |-> id])

setMode(m) ==
    Dispatch([type |-> "set-mode", id |-> NoId, mode |-> m])

switchMode(id) ==
    /\ timers + TimerEffect(state, SwitchMode(state, id)) <= MaxTimers
    /\ Dispatch([type |-> "switch-mode", id |-> id])

\* A settle timer fires, 250 ms after it was scheduled.
finishTransition ==
    /\ timers > 0
    /\ Dispatch([type |-> "finish-switch-mode", id |-> NoId])

\* The owner passes another transaction list: the filter is recomputed.
TransactionsChange(l) ==
    /\ l # propsTransactions
    /\ propsTransactions' = l
    /\ transactions' = FilterTransactions(state, prevSplitsExpanded, l)
    /\ prevSplitsExpanded' = state
    /\ wrote' = FALSE
    /\ lastAct' = [type |-> "transactions", id |-> NoId]
    /\ UNCHANGED << state, timers, cachedState, preSwitch, two, hist,
                    saveVars >>

Next ==
    \/ \E id \in ParentIds : toggle(id)
    \/ \E id \in ParentIds : openOnSplit(id)
    \/ \E m \in Modes : setMode(m)
    \/ \E id \in AnchorIds : switchMode(id)
    \/ finishTransition
    \/ \E l \in TxLists : TransactionsChange(l)

Spec == Init /\ [][Next]_vars

\* The same machine with fewer caller inputs, and with the fairness the
\* event loop gives: a scheduled timer is never cancelled, so it fires.
NextLive ==
    \/ toggle("p1")
    \/ openOnSplit("p2")
    \/ \E m \in Modes : setMode(m)
    \/ \E id \in {"p2", NoId} : switchMode(id)
    \/ finishTransition
    \/ \E l \in TxLists : TransactionsChange(l)

SpecLive == Init /\ [][NextLive]_vars /\ WF_vars(finishTransition)

-----------------------------------------------------------------------------
(* Part II, the actions.                                                   *)

RowOf(list, id) == list[FindIndex(list, id) + 1]

HasRow(list, id) == FindIndex(list, id) >= 0

FamilyOf(list, id) ==
    IF HasRow(list, id) /\ RowOf(list, id).parent_id # NoId
    THEN RowOf(list, id).parent_id ELSE id

\* History: the saves a new continuation would have to wait for, those of
\* its own family that are in flight when it is handed to afterSave.
Waits(kind, editingId) ==
    IF kind = "new"
    THEN {s.n : s \in rulesInFlight}
    ELSE {s.n : s \in {x \in commitInFlight :
                          FamilyOf(propsTransactions, x.id)
                             = FamilyOf(propsTransactions, editingId)}}

Here == Outcome(Null, shouldAdd, newNavigator, tableNavigator, NoCall)

CommitEffectKeepsRequest(nt, o, p, draftInFlight) ==
    IF ~o.shouldAdd
    THEN o
    ELSE IF nt[1].account = NoId
         THEN [o EXCEPT !.shouldAdd = FALSE,
                        !.newNav = onEdit(o.newNav, nt[1], "account", p),
                        !.call = Call("addNotification", draftInFlight,
                                      << >>)]
         ELSE LET fresh == makeTemporaryTransactions(
                               p.currentAccountId, p.currentCategoryId,
                               nt[1].date)
              IN  [o EXCEPT !.queued = Some(fresh),
                            !.newNav = onEdit(o.newNav, fresh[1], "date", p),
                            !.call = Call("onAdd", draftInFlight, nt)]

CommitEffectNoAccountCheck(nt, o, p, draftInFlight) ==
    IF ~o.shouldAdd
    THEN o
    ELSE LET fresh == makeTemporaryTransactions(
                          p.currentAccountId, p.currentCategoryId,
                          nt[1].date)
         IN  [o EXCEPT !.shouldAdd = FALSE,
                       !.queued = Some(fresh),
                       !.newNav = onEdit(o.newNav, fresh[1], "date", p),
                       !.call = Call("onAdd", draftInFlight, nt)]

CommitEffectBalancedOnly(nt, o, p, draftInFlight) ==
    IF ~o.shouldAdd
    THEN o
    ELSE IF nt[1].account = NoId
         THEN [o EXCEPT !.shouldAdd = FALSE,
                        !.newNav = onEdit(o.newNav, nt[1], "account", p),
                        !.call = Call("addNotification", draftInFlight,
                                      << >>)]
         ELSE IF nt[1].error # Null
              THEN [o EXCEPT !.shouldAdd = FALSE]
              ELSE LET fresh == makeTemporaryTransactions(
                                    p.currentAccountId, p.currentCategoryId,
                                    nt[1].date)
                   IN  [o EXCEPT !.shouldAdd = FALSE,
                                 !.queued = Some(fresh),
                                 !.newNav = onEdit(o.newNav, fresh[1],
                                                   "date", p),
                                 !.call = Call("onAdd", draftInFlight, nt)]

\* The commit effect of a render with buffer nt; draftInFlight tells
\* whether a draft save is still awaiting props.onApplyRules.
CommitEffect(nt, o, p, draftInFlight) ==
    IF ~o.shouldAdd
    THEN o
    ELSE IF nt[1].account = NoId
         THEN [o EXCEPT !.shouldAdd = FALSE,
                        !.newNav = onEdit(o.newNav, nt[1], "account", p),
                        !.call = Call("addNotification", draftInFlight,
                                      << >>)]
         ELSE LET fresh == makeTemporaryTransactions(
                               p.currentAccountId, p.currentCategoryId,
                               nt[1].date)
              IN  [o EXCEPT !.shouldAdd = FALSE,
                            !.queued = Some(fresh),
                            !.newNav = onEdit(o.newNav, fresh[1], "date", p),
                            !.call = Call("onAdd", draftInFlight, nt)]

\* Whether the after-save effect of a render runs the queued continuation.
AfterSaveEffectRuns(depsChanged, pending, slot) ==
    depsChanged /\ pending /\ slot # NoFunc

\* One render of TransactionTable and its effects, in the order they are
\* declared: latestState, the commit effect, the after-save effect.
\* propsChange: this render got another props.transactions (list);
\* rules, commits: the saves in flight when its effects run.
RenderWith(propsChange, list, rules, commits) ==
    LET nt == IF queued # Null THEN queued[1] ELSE newTransactions
        depsChanged == queued # Null \/ propsChange
        o1 == CommitEffect(nt, Here, props, rules # {})
        runs == AfterSaveEffectRuns(depsChanged, savePending, afterSaveFunc)
        o2 == IF runs
              THEN RunContinuation(afterSaveFunc, nt, list, o1, props)
              ELSE o1
        early == \E s \in rules \cup commits : s.n \in afterSaveFunc.waits
    IN  /\ newTransactions' = nt
        /\ queued' = o2.queued
        /\ shouldAdd' = o2.shouldAdd
        /\ newNavigator' = o2.newNav
        /\ tableNavigator' = o2.tableNav
        /\ lastCall' = o2.call
        /\ afterSaveFunc' = IF runs THEN NoFunc ELSE afterSaveFunc
        /\ savePending' = IF depsChanged THEN FALSE ELSE savePending
        /\ lastRan' = IF runs
                      THEN Ran(afterSaveFunc, nt, list, early, TRUE)
                      ELSE NoRan
        /\ phase' = IF o2.queued # Null \/ o2.shouldAdd THEN "render"
                                                       ELSE "idle"
        /\ rulesInFlight' = rules
        /\ commitInFlight' = commits

\* The render that ends an event whose handlers set state.
Render ==
    /\ phase # "idle"
    /\ RenderWith(FALSE, propsTransactions, rulesInFlight, commitInFlight)
    /\ UNCHANGED << expVars, filterVars, props, nSaves, nConts >>

\* The owner passes another transaction list (a render of its own).
ListChange(l, commits) ==
    /\ propsTransactions' = l
    /\ transactions' = FilterTransactions(state, prevSplitsExpanded, l)
    /\ prevSplitsExpanded' = state
    /\ RenderWith(TRUE, l, rulesInFlight, commits)
    /\ UNCHANGED << expVars, props, nSaves, nConts >>

SaveTransactionsChange(l) ==
    /\ phase = "idle"
    /\ l # propsTransactions
    /\ ListChange(l, commitInFlight)

\* The value a focused field of the edited draft row takes, its amount
\* drawn from amounts.
PatchesOf(row, field, amounts) ==
    IF field = "debit"
    THEN {[row EXCEPT !.amount = Some(a)] : a \in amounts} \ {row}
    ELSE IF field = "account"
         THEN {[row EXCEPT !.account = "acct"]} \ {row}
         ELSE IF field = "date"
              THEN {[row EXCEPT !.date = "yesterday"]} \ {row}
              ELSE {}

\* The amount a user types into a draft row is -1 (negative: a debit).
Patches(row, field) == PatchesOf(row, field, {-1})

\* onSave(transaction) for a draft row, up to its await.
SaveDraft(transaction) ==
    /\ phase = "idle"
    /\ nSaves < MaxSaves
    /\ savePending' = TRUE
    /\ nSaves' = nSaves + 1
    /\ IF props.onApplyRules
       THEN /\ rulesInFlight' =
                  rulesInFlight \cup {[n |-> nSaves + 1, tx |-> transaction]}
            /\ UNCHANGED queued
       ELSE /\ queued' = Some(updateTransaction(newTransactions,
                                                transaction).data)
            /\ UNCHANGED rulesInFlight
    /\ phase' = "savedNew"
    /\ UNCHANGED << expVars, filterVars, props, newTransactions, shouldAdd,
                    afterSaveFunc, commitInFlight, newNavigator,
                    tableNavigator, nConts >>
    /\ lastRan' = NoRan
    /\ lastCall' = NoCall

\* onSave(transaction) for a draft row of a table without
\* props.onApplyRules: nothing is awaited, no save stays in flight.
SaveDraftSync(transaction) ==
    /\ phase = "idle"
    /\ ~props.onApplyRules
    /\ savePending' = TRUE
    /\ queued' = Some(updateTransaction(newTransactions, transaction).data)
    /\ phase' = "savedNew"
    /\ UNCHANGED << expVars, filterVars, props, newTransactions, shouldAdd,
                    afterSaveFunc, rulesInFlight, commitInFlight,
                    newNavigator, tableNavigator, nSaves, nConts >>
    /\ lastRan' = NoRan
    /\ lastCall' = NoCall

\* What props.onApplyRules may resolve to.
RulesResult(transaction) ==
    {[transaction EXCEPT !.category = "groceries"]}

\* props.onApplyRules resolves: the rest of onSave.
RulesSettle(s, transaction) ==
    /\ phase = "idle"
    /\ s \in rulesInFlight
    /\ transaction \in RulesResult(s.tx)
    /\ rulesInFlight' = rulesInFlight \ {s}
    /\ queued' = Some(updateTransaction(newTransactions, transaction).data)
    /\ phase' = "render"
    /\ UNCHANGED << expVars, filterVars, props, newTransactions, shouldAdd,
                    savePending, afterSaveFunc, commitInFlight,
                    newNavigator, tableNavigator, nSaves, nConts >>
    /\ lastRan' = NoRan
    /\ lastCall' = NoCall

\* onSave(transaction) for the committed row being edited.
SaveCommitted ==
    /\ phase = "idle"
    /\ nSaves < MaxSaves
    /\ HasRow(transactions, tableNavigator.editingId)
    /\ savePending' = TRUE
    /\ nSaves' = nSaves + 1
    /\ commitInFlight' =
          commitInFlight \cup {[n |-> nSaves + 1,
                                id |-> tableNavigator.editingId]}
    /\ lastCall' = Call("onSave", FALSE, << tableNavigator.editingId >>)
    /\ phase' = "savedTable"
    /\ UNCHANGED << expVars, filterVars, props, newTransactions, queued,
                    shouldAdd, afterSaveFunc, rulesInFlight, newNavigator,
                    tableNavigator, nConts >>
    /\ lastRan' = NoRan

\* The store settles a committed save: the owner passes the new list, or
\* (the save was rejected, or changed nothing) the list stays as it is.
CommittedSettle(s, l) ==
    /\ phase = "idle"
    /\ s \in commitInFlight
    /\ IF l # propsTransactions
       THEN ListChange(l, commitInFlight \ {s})
       ELSE /\ commitInFlight' = commitInFlight \ {s}
            /\ UNCHANGED << expVars, filterVars, props, newTransactions,
                            queued, phase, shouldAdd, savePending,
                            afterSaveFunc, rulesInFlight, newNavigator,
                            tableNavigator, nSaves, nConts >>
            /\ lastRan' = NoRan
            /\ lastCall' = NoCall

\* What a handler leaves behind when it is done.
Apply(o) ==
    /\ queued' = IF o.queued # Null THEN o.queued ELSE queued
    /\ shouldAdd' = o.shouldAdd
    /\ newNavigator' = o.newNav
    /\ tableNavigator' = o.tableNav
    /\ lastCall' = o.call
    /\ phase' = IF phase # "idle" \/ o.queued # Null \/ o.shouldAdd
                THEN "render" ELSE "idle"

\* afterSave(func) called by an Enter handler.
CallAfterSave(kind, nav) ==
    LET func == [n |-> nConts + 1, kind |-> kind,
                 editingId |-> nav.editingId,
                 focusedField |-> nav.focusedField,
                 map |-> IF kind = "new" THEN << >> ELSE transactions,
                 waits |-> Waits(kind, nav.editingId),
                 over |-> IF savePending THEN afterSaveFunc.n ELSE 0]
        r == afterSave(savePending, afterSaveFunc, func)
    IN  /\ nConts < MaxConts
        /\ nConts' = nConts + 1
        /\ afterSaveFunc' = r.slot
        /\ IF r.run
           THEN /\ Apply(RunContinuation(func, newTransactions,
                                         propsTransactions, Here, props))
                /\ lastRan' = Ran(func, newTransactions, propsTransactions,
                                  func.waits # {}, FALSE)
           ELSE /\ Apply(Here)
                /\ lastRan' = NoRan
        /\ UNCHANGED << expVars, filterVars, props, newTransactions,
                        savePending, rulesInFlight, commitInFlight, nSaves >>

\* onAddTemporary: the Add button, or Enter with the force-add modifier.
onAddTemporary ==
    /\ Apply([Here EXCEPT !.shouldAdd = TRUE,
                          !.call = Call("onAddTemporary", FALSE, << >>)])
    /\ UNCHANGED << expVars, filterVars, props, newTransactions,
                    savePending, afterSaveFunc, rulesInFlight,
                    commitInFlight, nSaves, nConts >>
    /\ lastRan' = NoRan

\* onCheckNewEnter: Enter in the draft region, alone or right after the
\* save of the field it was pressed in.
onCheckNewEnter(metaKey) ==
    /\ props.isAdding
    /\ phase \in {"idle", "savedNew"}
    /\ IF metaKey THEN onAddTemporary
                  ELSE CallAfterSave("new", newNavigator)

\* onCheckEnter: Enter in the committed region.
onCheckEnter ==
    /\ phase \in {"idle", "savedTable"}
    /\ tableNavigator.editingId # NoId
    /\ CallAfterSave("table", tableNavigator)

\* The Add button of the draft region, offered while the root has no error.
AddButton ==
    /\ props.isAdding
    /\ phase = "idle"
    /\ newTransactions[1].error = Null
    /\ onAddTemporary

\* onSplit(id) for the draft root.
SplitDraft ==
    /\ props.isAdding
    /\ phase = "idle"
    /\ ~newTransactions[1].is_parent
    /\ Apply(onSplitDraft(newTransactions, "temp", Here, props))
    /\ UNCHANGED << expVars, filterVars, props, newTransactions,
                    savePending, afterSaveFunc, rulesInFlight,
                    commitInFlight, nSaves, nConts >>
    /\ lastRan' = NoRan

\* onSplit(id) for a draft root that is a parent already, while the
\* family has fewer than MaxRows rows.
SplitDraftAgain ==
    /\ props.isAdding
    /\ phase = "idle"
    /\ newTransactions[1].is_parent
    /\ Len(newTransactions) < MaxRows
    /\ Apply(onSplitDraft(newTransactions, "temp", Here, props))
    /\ UNCHANGED << expVars, filterVars, props, newTransactions,
                    savePending, afterSaveFunc, rulesInFlight,
                    commitInFlight, nSaves, nConts >>
    /\ lastRan' = NoRan

DeleteDraftNoRecalculation(newTrans, id) ==
    IF isTemporaryId(id)
    THEN IF id = newTrans[1].id
         THEN Null
         ELSE Some(WithoutRow(newTrans, id))
    ELSE Null

DeleteDraftAnyRow(newTrans, id) ==
    IF isTemporaryId(id)
    THEN Some(deleteTransaction(newTrans, id).data)
    ELSE Null

\* What onDelete(id) hands to setNewTransactions, Null when it does not
\* call it.
DeleteDraft(newTrans, id) ==
    IF isTemporaryId(id)
    THEN IF id = newTrans[1].id
         THEN Null
         ELSE Some(deleteTransaction(newTrans, id).data)
    ELSE Null

\* onDelete(id): the delete-draft cell of a row of the draft region.
onDelete(id) ==
    /\ props.isAdding
    /\ phase = "idle"
    /\ HasRow(newTransactions, id) \/ HasRow(propsTransactions, id)
    /\ Apply([Here EXCEPT !.queued = DeleteDraft(newTransactions, id),
                          !.call = Call("onDelete", FALSE, << id >>)])
    /\ UNCHANGED << expVars, filterVars, props, newTransactions,
                    savePending, afterSaveFunc, rulesInFlight,
                    commitInFlight, nSaves, nConts >>
    /\ lastRan' = NoRan

\* onCloseAddTransaction: Escape or Cancel in the draft region; the owner
\* (props.onCloseAddTransaction) closes the region.
onCloseAddTransaction ==
    /\ props.isAdding
    /\ phase = "idle"
    /\ Apply([Here EXCEPT
                 !.queued = Some(makeTemporaryTransactions(
                                    props.currentAccountId,
                                    props.currentCategoryId, NoId)),
                 !.call = Call("onCloseAddTransaction", FALSE, << >>)])
    /\ props' = [props EXCEPT !.isAdding = FALSE]
    /\ UNCHANGED << expVars, filterVars, newTransactions, savePending,
                    afterSaveFunc, rulesInFlight, commitInFlight, nSaves,
                    nConts >>
    /\ lastRan' = NoRan

\* The owner opens the draft region: props.isAdding becomes true, the
\* render derives a fresh buffer and the table edits its date.
OpenAddTransaction ==
    /\ ~props.isAdding
    /\ phase = "idle"
    /\ LET fresh == makeTemporaryTransactions(props.currentAccountId,
                                              props.currentCategoryId, NoId)
       IN  Apply([Here EXCEPT
                     !.queued = Some(fresh),
                     !.newNav = onEdit(newNavigator, fresh[1], "date",
                                       props)])
    /\ props' = [props EXCEPT !.isAdding = TRUE]
    /\ UNCHANGED << expVars, filterVars, newTransactions, savePending,
                    afterSaveFunc, rulesInFlight, commitInFlight, nSaves,
                    nConts >>
    /\ lastRan' = NoRan

\* The user moves the editing focus inside a region.
EditNew(i, field) ==
    /\ props.isAdding
    /\ phase = "idle"
    /\ i \in 1..Len(newTransactions)
    /\ newNavigator' = onEdit(newNavigator, newTransactions[i], field, props)
    /\ newNavigator' # newNavigator
    /\ UNCHANGED << expVars, filterVars, props, newTransactions, queued,
                    phase, shouldAdd, savePending, afterSaveFunc,
                    rulesInFlight, commitInFlight, tableNavigator, nSaves,
                    nConts >>
    /\ lastRan' = NoRan
    /\ lastCall' = NoCall

EditTable(id, field) ==
    /\ phase = "idle"
    /\ HasRow(transactions, id)
    /\ tableNavigator' = onEdit(tableNavigator, RowOf(transactions, id),
                                field, props)
    /\ tableNavigator' # tableNavigator
    /\ UNCHANGED << expVars, filterVars, props, newTransactions, queued,
                    phase, shouldAdd, savePending, afterSaveFunc,
                    rulesInFlight, commitInFlight, newNavigator, nSaves,
                    nConts >>
    /\ lastRan' = NoRan
    /\ lastCall' = NoCall

\* The field of the edited draft row is saved (blur, or the Enter that
\* onCheckNewEnter handles next).
SaveEditedDraftField(fields) ==
    \E i \in 1..Len(newTransactions) :
       /\ props.isAdding
       /\ newNavigator.focusedField \in fields
       /\ newTransactions[i].id = newNavigator.editingId
       /\ \E t \in Patches(newTransactions[i], newNavigator.focusedField) :
             SaveDraft(t)

\* The props of the table: with and without props.onApplyRules, with and
\* without a current account.
InitSave ==
    \E p \in {[showAccount |-> TRUE, showCategory |-> TRUE,
               onApplyRules |-> r, currentAccountId |-> a,
               currentCategoryId |-> NoId, isAdding |-> TRUE] :
                 r \in BOOLEAN, a \in {NoId, "acct"}} :
        /\ state = InitialState("collapse")
        /\ timers = 0
        /\ cachedState = InitialState("collapse")
        /\ wrote = TRUE
        /\ propsTransactions = ListA
        /\ prevSplitsExpanded = InitialState("collapse")
        /\ transactions =
              FilterTransactions(InitialState("collapse"), NullRef, ListA)
        /\ lastAct = [type |-> "mount", id |-> NoId]
        /\ preSwitch = InitialState("collapse")
        /\ two = NoTwo
        /\ hist = << >>
        /\ props = p
        /\ newTransactions =
              makeTemporaryTransactions(p.currentAccountId,
                                        p.currentCategoryId, NoId)
        /\ queued = Null
        /\ phase = "idle"
        /\ shouldAdd = FALSE
        /\ savePending = FALSE
        /\ afterSaveFunc = NoFunc
        /\ rulesInFlight = {}
        /\ commitInFlight = {}
        /\ newNavigator = [editingId |-> "temp", focusedField |-> "date"]
        /\ tableNavigator = [editingId |-> NoId, focusedField |-> NoId]
        /\ nSaves = 0
        /\ nConts = 0
        /\ lastRan = NoRan
        /\ lastCall = NoCall

NextSave ==
    \/ SaveEditedDraftField({"debit"})
    \/ \E s \in rulesInFlight : \E t \in RulesResult(s.tx) : RulesSettle(s, t)
    \/ SaveCommitted
    \/ \E s \in commitInFlight : \E l \in TxLists : CommittedSettle(s, l)
    \/ \E l \in TxLists : SaveTransactionsChange(l)
    \/ \E m \in BOOLEAN : onCheckNewEnter(m)
    \/ onCheckEnter
    \/ AddButton
    \/ SplitDraft
    \/ \E i \in 1..Len(newTransactions) : EditNew(i, "debit")
    \/ EditTable("c1b", "debit")
    \/ Render

SpecSave == InitSave /\ [][NextSave]_vars

\* The draft region alone: its fields are edited and saved, the family is
\* split, grown and shrunk, committed, closed and opened again.
NextDraft ==
    \/ SaveEditedDraftField({"debit", "account", "date"})
    \/ \E s \in rulesInFlight : \E t \in RulesResult(s.tx) : RulesSettle(s, t)
    \/ \E m \in BOOLEAN : onCheckNewEnter(m)
    \/ AddButton
    \/ SplitDraft
    \/ \E i \in {1, Len(newTransactions)}, f \in {"debit", "account"} :
          EditNew(i, f)
    \/ \E i \in 1..Len(newTransactions) : onDelete(newTransactions[i].id)
    \/ onCloseAddTransaction
    \/ OpenAddTransaction
    \/ Render

SpecDraft == InitSave /\ [][NextDraft]_vars

\* The draft family alone, in a table without props.onApplyRules: amounts
\* are typed into its rows, it is split, grown by Enter and shrunk.
SaveAmount ==
    \E i \in 1..Len(newTransactions) :
       /\ props.isAdding
       /\ newNavigator.focusedField = "debit"
       /\ newTransactions[i].id = newNavigator.editingId
       /\ \E t \in PatchesOf(newTransactions[i], "debit", {-2, -1}) :
             SaveDraftSync(t)

\* Plain Enter while the family has fewer than MaxRows rows.
FamilyEnter ==
    /\ Len(newTransactions) < MaxRows
    /\ onCheckNewEnter(FALSE)

NextFamily ==
    \/ SaveAmount
    \/ SplitDraft
    \/ SplitDraftAgain
    \/ FamilyEnter
    \/ \E i \in 1..Len(newTransactions) : EditNew(i, "debit")
    \/ \E i \in 1..Len(newTransactions) : onDelete(newTransactions[i].id)
    \/ Render

InitFamily ==
    /\ InitSave
    /\ ~props.onApplyRules
    /\ props.currentAccountId = "acct"

SpecFamily == InitFamily /\ [][NextFamily]_vars

\* The committed region alone: its rows are edited and saved, the owner
\* passes other lists, Enter is pressed.
NextTable ==
    \/ SaveCommitted
    \/ \E s \in commitInFlight : \E l \in TxLists : CommittedSettle(s, l)
    \/ \E l \in TxLists : SaveTransactionsChange(l)
    \/ onCheckEnter
    \/ \E id \in {"c1a", "c1b", "c2a"}, f \in {"debit", "select"} :
          EditTable(id, f)
    \/ Render

SpecTable == InitSave /\ [][NextTable]_vars

\* React renders after an event, and the collaborators settle every save.
SpecSaveLive ==
    /\ InitSave
    /\ [][NextSave]_vars
    /\ WF_vars(Render)
    /\ WF_vars(\E s \in rulesInFlight :
                  \E t \in RulesResult(s.tx) : RulesSettle(s, t))
    /\ WF_vars(\E s \in commitInFlight :
                  \E l \in TxLists : CommittedSettle(s, l))

-----------------------------------------------------------------------------
(* The provider with the last two dispatches recorded, for the statements  *)
(* about sequences of calls.                                               *)

\* The id props.onSplit returns for the first child of a split transaction.
NewSplitId == "n1a"

Push(h, e) == IF Len(h) < 2 THEN Append(h, e) ELSE << h[2], e >>

Recorded(action) ==
    /\ DispatchCore(action)
    /\ hist' = Push(hist, [s |-> state, type |-> action.type,
                           id |-> action.id])

onToggleSplit(id) ==
    /\ Recorded([type |-> "toggle-split", id |-> id])
    /\ UNCHANGED saveVars

\* onSplit(id) for a committed id; amountNull: the row has no amount yet.
onSplit(id, amountNull) ==
    /\ HasRow(propsTransactions, id)
    /\ Recorded([type |-> "open-split", id |-> id])
    /\ lastCall' = Call("onSplit", FALSE, << id, amountNull >>)
    /\ tableNavigator' =
          IF amountNull
          THEN onEdit(tableNavigator, RowOf(propsTransactions, id), "debit",
                      props)
          ELSE onEdit(tableNavigator, Row(NewSplitId, id),
                      tableNavigator.focusedField, props)
    /\ lastRan' = NoRan
    /\ UNCHANGED << props, newTransactions, queued, phase, shouldAdd,
                    savePending, afterSaveFunc, rulesInFlight,
                    commitInFlight, newNavigator, nSaves, nConts >>

\* Any other dispatch: the record of consecutive calls starts afresh.
OtherDispatch ==
    /\ \/ \E m \in Modes :
             DispatchCore([type |-> "set-mode", id |-> NoId, mode |-> m])
       \/ /\ timers + TimerEffect(state, SwitchMode(state, "p2")) <= MaxTimers
          /\ DispatchCore([type |-> "switch-mode", id |-> "p2"])
       \/ /\ timers > 0
          /\ DispatchCore([type |-> "finish-switch-mode", id |-> NoId])
    /\ hist' = << >>
    /\ UNCHANGED saveVars

NextAlg ==
    \* the ids the calls carry: a parent, and a transaction that is split
    \* while the table is shown
    \/ \E id \in {"p1", "n1"} : onToggleSplit(id)
    \/ \E id \in {"p1", "n1"} : \E a \in BOOLEAN : onSplit(id, a)
    \/ OtherDispatch

InitAlg == Init /\ propsTransactions = ListA

SpecAlg == InitAlg /\ [][NextAlg]_vars

\* Structural inserts in both regions: the draft root is given an amount
\* and split, Enter adds splits to the draft family and to the committed
\* family of c1b, the committed row n1 is split.
SaveDebit ==
    \E i \in 1..Len(newTransactions) :
       /\ props.isAdding
       /\ newNavigator.focusedField = "debit"
       /\ newTransactions[i].id = newNavigator.editingId
       /\ \E t \in Patches(newTransactions[i], "debit") : SaveDraftSync(t)

NextFocus ==
    \/ SaveDebit
    \/ SplitDraft
    \/ FamilyEnter
    \/ \E i \in {1, Len(newTransactions)}, f \in {"debit", "account"} :
          EditNew(i, f)
    \/ Render
    \/ EditTable("c1b", "debit")
    \/ phase = "idle" /\ onCheckEnter
    \/ \E a \in BOOLEAN : phase = "idle" /\ onSplit("n1", a)

SpecFocus == InitFamily /\ [][NextFocus]_vars

-----------------------------------------------------------------------------
(* Helpers of the statements.                                              *)

Flip(m) == IF m = "expand" THEN "collapse" ELSE "expand"

IsVisible(id) == \E i \in 1..Len(transactions) : transactions[i].id = id

ChildIndexes ==
    {i \in 1..Len(propsTransactions) : propsTransactions[i].parent_id # NoId}

-----------------------------------------------------------------------------
(* C1 *)

\* C1 as stated: a switch-mode received while transitionId is non-null
\* leaves mode, ids and transitionId unchanged, and after two switch-mode
\* calls with no finish-switch-mode between them transitionId is the anchor
\* of the first call and mode has flipped exactly once.
C1_AsStated ==
    [][ /\ (lastAct'.type = "switch-mode" /\ state.transitionId # NoId)
              => state' = state
        /\ two'.n = 2
              => /\ state'.transitionId = two'.id
                 /\ state'.mode = Flip(two'.modeBefore) ]_vars

\* C1 (amended): a switch-mode received while transitionId is non-null
\* leaves mode, ids and transitionId unchanged; after two switch-mode calls
\* with no finish-switch-mode and no set-mode between them, the first of
\* which carried a non-null anchor id, transitionId is the anchor of the
\* first call and mode has flipped exactly once.
C1_SwitchExclusive ==
    [][ /\ (lastAct'.type = "switch-mode" /\ state.transitionId # NoId)
              => state' = state
        /\ (two'.n = 2 /\ two'.id # NoId /\ ~two'.setMode)
              => /\ state'.transitionId = two'.id
                 /\ state'.mode = Flip(two'.modeBefore) ]_vars

C1_Witness ==
    /\ two.n = 2 /\ two.id # NoId /\ ~two.setMode
    /\ lastAct.type = "switch-mode"
    /\ lastAct.id # two.id
    /\ state.transitionId = two.id

-----------------------------------------------------------------------------
(* C6 *)

\* C6: whenever transitionId is non-null a settle timer is outstanding,
\* it fires, and transitionId returns to null; finish-switch-mode changes
\* neither mode nor ids, and a switch-mode that follows it is accepted.
C6_TransitionFinishes ==
    /\ (state.transitionId # NoId) ~> (state.transitionId = NoId)
    /\ [](state.transitionId # NoId => timers > 0)
    /\ [][ /\ lastAct'.type = "finish-switch-mode"
              => /\ state'.mode = state.mode
                 /\ state'.ids = state.ids
                 /\ state'.transitionId = NoId
                 /\ timers' = timers - 1
           /\ (lastAct.type = "finish-switch-mode"
                 /\ lastAct'.type = "switch-mode")
              => /\ state'.transitionId = lastAct'.id
                 /\ state'.mode = Flip(state.mode) ]_vars

C6_Witness ==
    /\ lastAct.type = "finish-switch-mode"
    /\ state.transitionId = NoId
    /\ state.mode # preSwitch.mode
    /\ state.ids # {}
    /\ timers = 0

-----------------------------------------------------------------------------
(* C7 *)

\* C7: every state change that leaves transitionId null writes the full
\* state to the cache, no state with a non-null transitionId is written,
\* and the cached snapshot always has transitionId null.
C7_CachePersistence ==
    /\ cachedState = state
    /\ [][ /\ wrote' => (cachedState' = state' /\ state'.transitionId = NoId)
           /\ ~wrote' => cachedState' = cachedState
           /\ (state' # state /\ state'.transitionId = NoId) => wrote'
           /\ state'.transitionId = NoId => cachedState' = state'
           /\ cachedState'.transitionId = NoId ]_vars

C7_Witness ==
    /\ state.transitionId # NoId
    /\ lastAct.type = "toggle-split"
    /\ state.ids # {}
    /\ cachedState # state
    /\ cachedState.transitionId = NoId

-----------------------------------------------------------------------------
(* C8 *)

\* C8 as stated: during a transition a split child at or after the index
\* of the row with id transitionId is visible iff its parent is expanded
\* under the new state, and a split child before that index is visible iff
\* its parent was expanded under the pre-switch snapshot.
C8_WavefrontAsStated ==
    (state.transitionId # NoId
        /\ FindIndex(propsTransactions, state.transitionId) >= 0)
    => \A i \in ChildIndexes :
          LET t == propsTransactions[i]
          IN  IF i - 1 >= FindIndex(propsTransactions, state.transitionId)
              THEN IsVisible(t.id) <=> expanded(state, t.parent_id)
              ELSE IsVisible(t.id) <=> expanded(preSwitch, t.parent_id)

-----------------------------------------------------------------------------
(* C9 *)

\* C9: outside a transition a split child is visible iff its parent is
\* effectively expanded under the current state (the filter keeps exactly
\* those rows, in order), and a row without a parent id is always visible.
C9_UniformFilter ==
    /\ state.transitionId = NoId
          => transactions =
                SelectSeq(propsTransactions,
                          LAMBDA t : \/ t.parent_id = NoId
                                     \/ expanded(state, t.parent_id))
    /\ \A i \in 1..Len(propsTransactions) :
          propsTransactions[i].parent_id = NoId
             => IsVisible(propsTransactions[i].id)

C9_Witness ==
    /\ state.transitionId = NoId
    /\ lastAct.type = "toggle-split"
    /\ \E i \in ChildIndexes : IsVisible(propsTransactions[i].id)
    /\ \E i \in ChildIndexes : ~IsVisible(propsTransactions[i].id)

-----------------------------------------------------------------------------
(* C10 *)

\* C10: a switch-mode received while transitionId is null flips mode,
\* empties ids and sets transitionId to the anchor id of the call.
C10_SwitchModeAccepted ==
    [][ (lastAct'.type = "switch-mode" /\ state.transitionId = NoId)
           => state' = [mode |-> Flip(state.mode),
                        ids |-> {},
                        transitionId |-> lastAct'.id] ]_vars

C10_Witness ==
    /\ lastAct.type = "switch-mode"
    /\ two.n = 1
    /\ state.transitionId = "p2"
    /\ preSwitch.ids # {}
    /\ state.ids = {}
    /\ state.mode = Flip(preSwitch.mode)



-----------------------------------------------------------------------------
(* C11 *)

\* C11: toggle(id) is enabled in every state, also during a transition;
\* it flips the membership of exactly that id in ids and leaves mode,
\* transitionId and the membership of every other id unchanged.
C11_ToggleFrame ==
    /\ [](\A id \in ParentIds : ENABLED toggle(id))
    /\ [][lastAct'.type = "toggle-split" =>
             /\ (lastAct'.id \in state'.ids) <=> (lastAct'.id \notin state.ids)
             /\ state'.ids \ {lastAct'.id} = state.ids \ {lastAct'.id}
             /\ state'.mode = state.mode
             /\ state'.transitionId = state.transitionId]_vars

\* A toggle during a transition removed its id and left another one.
C11_Witness ==
    /\ lastAct.type = "toggle-split"
    /\ state.transitionId # NoId
    /\ lastAct.id \notin state.ids
    /\ state.ids # {}

-----------------------------------------------------------------------------
(* C12 *)

\* C12: one toggle(id) inverts the effective expansion of id, and
\* toggle(id) followed at once by toggle(id) restores the effective
\* expansion id had before the two.
C12_ToggleInvolution ==
    LET n == Len(hist)
    IN  /\ (n >= 1 /\ hist[n].type = "toggle-split")
              => expanded(state, hist[n].id) # expanded(hist[n].s, hist[n].id)
        /\ (n = 2 /\ hist[1].type = "toggle-split"
                  /\ hist[2].type = "toggle-split"
                  /\ hist[1].id = hist[2].id)
              => expanded(state, hist[1].id)
                    = expanded(hist[1].s, hist[1].id)

\* Two toggles of one id in a row, in collapse mode during a transition.
C12_Witness ==
    /\ Len(hist) = 2
    /\ hist[1].type = "toggle-split" /\ hist[2].type = "toggle-split"
    /\ hist[1].id = hist[2].id
    /\ state.mode = "collapse"
    /\ state.transitionId # NoId
    /\ state.ids # {}

-----------------------------------------------------------------------------
(* C13 *)

\* C13: open-split leaves its id effectively expanded whatever the mode
\* and the previous membership, changes neither mode nor transitionId,
\* gives the same state when applied twice as once, and is dispatched for
\* the split transaction whenever a committed transaction is split.
C13_OpenSplit ==
    /\ [](LET n == Len(hist)
          IN  /\ (n >= 1 /\ hist[n].type = "open-split")
                    => /\ expanded(state, hist[n].id)
                       /\ state.mode = hist[n].s.mode
                       /\ state.transitionId = hist[n].s.transitionId
              /\ (n = 2 /\ hist[1].type = "open-split"
                        /\ hist[2].type = "open-split"
                        /\ hist[1].id = hist[2].id)
                    => state = hist[2].s)
    /\ [][lastCall'.fn = "onSplit" /\ lastCall' # lastCall =>
             /\ lastAct'.type = "open-split"
             /\ HasRow(propsTransactions, lastAct'.id)
             /\ expanded(state', lastAct'.id)]_vars

\* An open-split on an id that read as collapsed in both modes before, and
\* a second one right after it.
C13_Witness ==
    /\ Len(hist) = 2
    /\ hist[1].type = "open-split" /\ hist[2].type = "open-split"
    /\ hist[1].id = hist[2].id
    /\ ~expanded(hist[1].s, hist[1].id)
    /\ hist[1].s.mode = "collapse"
    /\ lastCall.fn = "onSplit"

-----------------------------------------------------------------------------
(* C14 *)

\* C14: expanded(id) is "id not in ids" when mode is collapse and "id in
\* ids" when mode is expand; right after an accepted switch-mode every
\* parent has the same effective expansion, true iff the new mode is
\* collapse.
C14_EffectiveExpansion ==
    /\ [](\A id \in ParentIds :
             expanded(state, id) <=>
                \/ state.mode = "collapse" /\ id \notin state.ids
                \/ state.mode = "expand" /\ id \in state.ids)
    /\ [][(lastAct'.type = "switch-mode" /\ state.transitionId = NoId) =>
             \A id \in ParentIds :
                expanded(state', id) <=> state'.mode = "collapse"]_vars

\* A switch-mode was accepted from a state with overrides.
C14_Witness ==
    /\ lastAct.type = "switch-mode"
    /\ state.transitionId # NoId
    /\ preSwitch.ids # {}
    /\ state.ids = {}
    /\ two.n = 1

-----------------------------------------------------------------------------
(* The after-save queue.                                                   *)

\* C2: a continuation queued with afterSave while a save is pending runs
\* only after that save has settled: when a queued continuation runs, no
\* save of its family that was in flight when it was queued is still in
\* flight.
C2_RunsAfterSettle ==
    lastRan.queued => ~lastRan.early

\* C3: while a save of the draft family is in flight, props.onAdd is never
\* called with the draft family.
C3_NoAddWhileInFlight ==
    ~(lastCall.fn = "onAdd" /\ lastCall.inFlight)

\* C4: every continuation queued while a save is pending eventually runs
\* (or is replaced by a later one, which then runs), also when the save is
\* rejected or changes nothing.
C4_QueuedEventuallyRuns ==
    \A k \in 1..MaxConts :
        (afterSaveFunc.n = k) ~> (lastRan.n = k \/ afterSaveFunc.n > k)

\* C5: the after-save queue holds at most one continuation, the one of the
\* latest afterSave call made while a save was pending; a call made while a
\* save is pending queues its continuation in place of the older one and
\* runs nothing; a call made while no save is pending runs its
\* continuation at once and queues nothing; the continuation the
\* after-save effect runs is the one queued last, and it leaves the queue.
C5_SingleSlotLastWins ==
    /\ [](afterSaveFunc # NoFunc
             => savePending /\ afterSaveFunc.n = nConts)
    /\ [][nConts' = nConts + 1 =>
             IF savePending
             THEN /\ afterSaveFunc'.n = nConts'
                  /\ lastRan' = NoRan
             ELSE /\ lastRan'.n = nConts' /\ ~lastRan'.queued
                  /\ afterSaveFunc' = afterSaveFunc
                  /\ afterSaveFunc' = NoFunc]_vars
    /\ [][lastRan'.queued =>
             /\ lastRan'.n = afterSaveFunc.n
             /\ lastRan'.n = nConts
             /\ afterSaveFunc' = NoFunc]_vars

\* A queued continuation that had replaced an older, unfired one has run.
C5_Witness ==
    /\ lastRan.queued
    /\ lastRan.over # 0
    /\ lastRan.n = nConts
    /\ afterSaveFunc = NoFunc

-----------------------------------------------------------------------------
(* C15 *)

\* C15: while the draft region is open (props.isAdding), the staging
\* buffer, and the buffer a handler has handed to setNewTransactions for
\* the next render, holds at least one row and its first row is the anchor
\* row with the draft id "temp", whatever updates, splits, added splits,
\* deletes, commits (with or without the account fault) and closes came
\* before.
C15_BufferAnchored ==
    props.isAdding =>
        /\ Len(newTransactions) >= 1
        /\ newTransactions[1].id = "temp"
        /\ newTransactions[1].parent_id = NoId
        /\ queued # Null =>
              /\ Len(queued[1]) >= 1
              /\ queued[1][1].id = "temp"

\* A child has been deleted from a draft family of three rows or more, the
\* region still open.
C15_Witness ==
    /\ props.isAdding
    /\ lastCall.fn = "onDelete"
    /\ queued # Null
    /\ Len(newTransactions) >= 3
    /\ Len(queued[1]) = Len(newTransactions) - 1

-----------------------------------------------------------------------------
(* C16 *)

RowIds(seq) == {seq[i].id : i \in 1..Len(seq)}

\* C16: onDelete of the id of the buffer's root changes nothing (the buffer
\* and the buffer queued for the next render stay as they are); onDelete of
\* a draft child hands the next render the buffer without that child, every
\* other row still there and the root still first.
C16_DeleteRootRefused ==
    [][lastCall'.fn = "onDelete" =>
          LET id == lastCall'.arg[1]
          IN  IF id = newTransactions[1].id
              THEN /\ newTransactions' = newTransactions
                   /\ queued' = queued
                   /\ phase' = phase
              ELSE /\ queued' # Null
                   /\ RowIds(queued'[1]) = RowIds(newTransactions) \ {id}
                   /\ queued'[1][1].id = newTransactions[1].id
                   /\ newTransactions' = newTransactions]_vars

\* Delete was asked for the root of a split draft family, and refused.
C16_Witness ==
    /\ lastCall.fn = "onDelete"
    /\ lastCall.arg = << "temp" >>
    /\ newTransactions[1].is_parent
    /\ Len(newTransactions) >= 2
    /\ queued = Null

-----------------------------------------------------------------------------
(* C17 *)

\* The buffer the commit effect of the next render reads.
NextBuffer == IF queued # Null THEN queued[1] ELSE newTransactions

\* C17 as stated: whenever the continuation of a plain Enter pressed on the
\* last draft row finds no split error, the family is committed to onAdd
\* and a fresh draft replaces it.
C17_AsStated ==
    [][lastRan.kind = "new" /\ lastRan.did = "commit" =>
          /\ lastCall'.fn = "onAdd"
          /\ queued' # Null /\ Len(queued'[1]) = 1]_vars

\* C17 as the code has it: when the continuation of a plain Enter runs and
\* the id edited at the key press is the id of the last row of the buffer
\* it reads, it takes exactly one of two branches: with a split error on
\* the root it appends a child and requests no commit, without one it
\* requests a commit (shouldAdd) and leaves the buffer alone; when the id
\* is not that of the last row it does neither. The render after a commit
\* request commits an error-free family to onAdd and queues a fresh
\* one-row draft if the root's account is set, and only notifies if it is
\* not.
C17_PlainEnter ==
    /\ [][lastRan'.kind = "new" =>
             LET nt == lastRan'.at
                 last == nt[Len(nt)]
             IN  IF lastRan'.editingId = last.id
                 THEN IF nt[1].error # Null
                      THEN /\ lastRan'.did = "addSplit"
                           /\ ~shouldAdd'
                           /\ queued' # Null
                           /\ Len(queued'[1]) = Len(nt) + 1
                           /\ lastCall'.fn # "onAdd" \/ lastCall'.arg # nt
                      ELSE /\ lastRan'.did = "commit"
                           /\ shouldAdd'
                 ELSE /\ lastRan'.did = "none"
                      /\ ~shouldAdd']_vars
    /\ [][lastRan.kind = "new" /\ lastRan.did = "commit" /\ vars' # vars =>
             IF NextBuffer[1].account # NoId
             THEN /\ lastCall'.fn = "onAdd"
                  /\ lastCall'.arg = NextBuffer
                  /\ lastCall'.arg[1].error = Null
                  /\ queued' # Null /\ Len(queued'[1]) = 1
             ELSE /\ lastCall'.fn = "addNotification"
                  /\ newTransactions' = NextBuffer]_vars

\* Plain Enter on the last child of an unbalanced draft family has just
\* added a child instead of committing.
C17_Witness ==
    /\ lastRan.kind = "new"
    /\ lastRan.did = "addSplit"
    /\ Len(lastRan.at) >= 2
    /\ lastRan.editingId = lastRan.at[Len(lastRan.at)].id
    /\ lastRan.at[1].error # Null
    /\ queued # Null
    /\ ~shouldAdd

-----------------------------------------------------------------------------
(* C18 *)

\* C18 as stated: the render after onAddTemporary (force-add Enter, or the
\* Add button) commits the family to onAdd and queues a one-row draft with
\* the committed root's account, category and date and no amount.
C18_AsStated ==
    [][lastCall.fn = "onAddTemporary" /\ vars' # vars =>
          /\ lastCall'.fn = "onAdd"
          /\ lastCall'.arg = NextBuffer
          /\ queued' # Null
          /\ Len(queued'[1]) = 1
          /\ queued'[1][1].account = NextBuffer[1].account
          /\ queued'[1][1].category = NextBuffer[1].category
          /\ queued'[1][1].date = NextBuffer[1].date
          /\ queued'[1][1].amount = Null]_vars

\* C18 as the code has it: the render after onAddTemporary, if the root's
\* account is set, hands the whole family to onAdd, split error or not, and
\* queues a one-row draft "temp" whose account and category are
\* props.currentAccountId and props.currentCategoryId, whose date is the
\* committed root's date and whose amount is unset; if the root's account
\* is unset it calls no onAdd and keeps the buffer.
C18_ForceAdd ==
    [][lastCall.fn = "onAddTemporary" /\ vars' # vars =>
          IF NextBuffer[1].account # NoId
          THEN /\ lastCall'.fn = "onAdd"
               /\ lastCall'.arg = NextBuffer
               /\ queued' # Null
               /\ Len(queued'[1]) = 1
               /\ queued'[1][1].id = "temp"
               /\ queued'[1][1].account = props.currentAccountId
               /\ queued'[1][1].category = props.currentCategoryId
               /\ queued'[1][1].date = NextBuffer[1].date
               /\ queued'[1][1].amount = Null
               /\ ~queued'[1][1].is_parent
          ELSE /\ lastCall'.fn # "onAdd"
               /\ newTransactions' = NextBuffer
               /\ queued' = Null]_vars

\* A draft family with a split error has just been committed by force-add.
C18_Witness ==
    /\ lastCall.fn = "onAdd"
    /\ Len(lastCall.arg) >= 2
    /\ lastCall.arg[1].error # Null
    /\ queued # Null
    /\ Len(queued[1]) = 1

-----------------------------------------------------------------------------
(* C20 *)

\* C20: a render that finds a commit request (shouldAdd) and a root
\* without account emits the notification and calls no onAdd, moves the
\* draft navigator to the account field of the root "temp", leaves the
\* buffer as it is (nothing queued in its place) and consumes the request;
\* after it the table is idle and, the draft region being open, a new
\* commit request can be made.
C20_AccountFault ==
    /\ [][shouldAdd /\ NextBuffer[1].account = NoId /\ vars' # vars =>
             /\ lastCall'.fn = "addNotification"
             /\ newNavigator' = [editingId |-> "temp",
                                 focusedField |-> "account"]
             /\ newTransactions' = NextBuffer
             /\ queued' = Null
             /\ ~shouldAdd']_vars
    /\ [](lastCall.fn = "addNotification" =>
             /\ ~shouldAdd
             /\ phase = "idle"
             /\ props.isAdding => ENABLED onCheckNewEnter(TRUE))

\* The commit of a split draft family without account has just been
\* refused.
C20_Witness ==
    /\ lastCall.fn = "addNotification"
    /\ props.isAdding
    /\ newTransactions[1].account = NoId
    /\ Len(newTransactions) >= 2
    /\ newNavigator = [editingId |-> "temp", focusedField |-> "account"]
    /\ ~shouldAdd

-----------------------------------------------------------------------------
(* C19 *)

\* The row the continuation of an Enter in the committed region looks at is
\* the last child of a family whose parent carries a split error.
LastChildOfErrorFamily(list, id) ==
    /\ isLastChild(list, FindIndex(list, id))
    /\ RowOf(list, id).parent_id \in UnbalancedParents

-----------------------------------------------------------------------------
(* C21 *)

\* C21: onSplit of the draft root hands the next render a buffer that has
\* the old rows in their order (the root now a parent) and exactly one new
\* row after them, that is right after the root when it had no children
\* and after its last child when it had: a child of the split id with a
\* fresh id and no amount. The added row of the diff is that row: focus
\* moves to it when the root had an amount. From the one-row draft the
\* buffer has two rows, the second a child of "temp".
C21_SplitDraft ==
    [][lastCall'.fn = "onSplit" /\ isTemporaryId(lastCall'.arg[1]) =>
          LET nt == newTransactions
              n == Len(nt)
              id == lastCall'.arg[1]
          IN  /\ queued' # Null
              /\ Len(queued'[1]) = n + 1
              /\ queued'[1][1].id = id
              /\ queued'[1][1].is_parent
              /\ \A i \in 1..n :
                    [queued'[1][i] EXCEPT !.is_parent = FALSE,
                                          !.error = Null]
                       = [nt[i] EXCEPT !.is_parent = FALSE, !.error = Null]
              /\ queued'[1][n + 1].parent_id = id
              /\ queued'[1][n + 1].amount = Null
              /\ ~queued'[1][n + 1].is_parent
              /\ queued'[1][n + 1].id \notin RowIds(nt)
              /\ nt[1].amount # Null /\ newNavigator.focusedField = "debit"
                    => newNavigator'.editingId = queued'[1][n + 1].id
              /\ n = 1 => /\ Len(queued'[1]) = 2
                          /\ queued'[1][2].parent_id = "temp"]_vars

\* A draft root that had a child already has just been split once more.
C21_Witness ==
    /\ lastCall.fn = "onSplit"
    /\ lastCall.arg = << "temp" >>
    /\ newTransactions[1].is_parent
    /\ Len(newTransactions) = 2
    /\ queued # Null
    /\ Len(queued[1]) = 3
    /\ queued[1][2] = newTransactions[2]

-----------------------------------------------------------------------------
(* C22 *)

\* Where onEdit(item, field) leaves a navigator that was at nav.
Moved(nav, item, field) ==
    IF \E i \in 1..Len(getFields(item, props)) :
          getFields(item, props)[i] = field
    THEN [editingId |-> item.id, focusedField |-> field]
    ELSE nav

\* C22 as stated, for the inserts whose anchor amount the table knows: after
\* a split of the draft root or of a committed row, and after an addSplit
\* in the draft family, the focus is on the anchor's debit field if the
\* anchor's amount was unset, and otherwise on the added row with the
\* field name kept (a field of that row's field set).
C22_AsStated ==
    [][/\ lastCall'.fn = "onSplit" /\ isTemporaryId(lastCall'.arg[1])
             => newNavigator' =
                   IF newTransactions[1].amount = Null
                   THEN [editingId |-> "temp", focusedField |-> "debit"]
                   ELSE Moved(newNavigator, queued'[1][Len(queued'[1])],
                              newNavigator.focusedField)
       /\ lastCall'.fn = "onSplit" /\ ~isTemporaryId(lastCall'.arg[1])
             => tableNavigator' =
                   IF lastCall'.arg[2]
                   THEN [editingId |-> lastCall'.arg[1],
                         focusedField |-> "debit"]
                   ELSE Moved(tableNavigator,
                              Row(NewSplitId, lastCall'.arg[1]),
                              tableNavigator.focusedField)
       /\ lastRan'.kind = "new" /\ lastRan'.did = "addSplit"
             => newNavigator' =
                   IF lastRan'.at[1].amount = Null
                   THEN [editingId |-> "temp", focusedField |-> "debit"]
                   ELSE Moved(newNavigator, queued'[1][Len(queued'[1])],
                              newNavigator.focusedField)]_vars

\* C22 as the code has it. After a split (draft root, committed row): onEdit
\* of the anchor's debit field if the anchor's amount was unset, otherwise
\* onEdit of the added row at the field focused before. After an addSplit
\* (draft family, committed family): onEdit of the added row at the field
\* focused before, whatever the anchor's amount. onEdit moves the focus
\* only to a field of the row's field set and leaves it alone otherwise.
C22_FocusAfterInsert ==
    [][/\ lastCall'.fn = "onSplit" /\ isTemporaryId(lastCall'.arg[1])
             => newNavigator' =
                   IF newTransactions[1].amount = Null
                   THEN [editingId |-> "temp", focusedField |-> "debit"]
                   ELSE Moved(newNavigator, queued'[1][Len(queued'[1])],
                              newNavigator.focusedField)
       /\ lastCall'.fn = "onSplit" /\ ~isTemporaryId(lastCall'.arg[1])
             => tableNavigator' =
                   IF lastCall'.arg[2]
                   THEN [editingId |-> lastCall'.arg[1],
                         focusedField |-> "debit"]
                   ELSE Moved(tableNavigator,
                              Row(NewSplitId, lastCall'.arg[1]),
                              tableNavigator.focusedField)
       /\ lastRan'.kind = "new" /\ lastRan'.did = "addSplit"
             => newNavigator' =
                   Moved(newNavigator, queued'[1][Len(queued'[1])],
                         newNavigator.focusedField)
       /\ lastCall'.addSplit # << >>
             => tableNavigator' =
                   Moved(tableNavigator,
                         Row(NewCommittedId,
                             RowOf(propsTransactions',
                                   lastCall'.addSplit[1]).parent_id),
                         tableNavigator.focusedField)]_vars

\* Enter has just added a split to a draft family whose root has no
\* amount, and the focus is on the added child.
C22_Witness ==
    /\ lastRan.kind = "new"
    /\ lastRan.did = "addSplit"
    /\ lastRan.at[1].amount = Null
    /\ queued # Null
    /\ newNavigator.editingId = queued[1][Len(queued[1])].id
    /\ newNavigator.focusedField = "debit"

-----------------------------------------------------------------------------
(* C23 *)

\* The split balance of the family held in seq: no error iff the amounts
\* of the children (an unset amount counting 0) add up to the amount of
\* the parent, and otherwise an error whose difference, added to the sum
\* of the children, gives the amount of the parent.
Balanced(seq) ==
    seq[1].is_parent =>
        /\ seq[1].error = Null <=> SumAmounts(seq, 2) = num(seq[1].amount)
        /\ seq[1].error # Null =>
              SumAmounts(seq, 2) + seq[1].error[1] = num(seq[1].amount)

\* C23: the draft family, as rendered and as queued for the next render,
\* is balanced in that sense after any sequence of splits, added splits,
\* deletes and amount updates.
C23_SplitBalance ==
    /\ Balanced(newTransactions)
    /\ queued # Null => Balanced(queued[1])

\* A root of -2 with one child of -1 carries the difference -1, and a
\* second child is being given the missing -1.
C23_Witness ==
    /\ Len(newTransactions) = 3
    /\ newTransactions[1].amount = Some(-2)
    /\ newTransactions[2].amount = Some(-1)
    /\ newTransactions[3].amount = Null
    /\ newTransactions[1].error = Some(-1)
    /\ queued # Null
    /\ Len(queued[1]) = 3
    /\ queued[1][3].amount = Some(-1)
    /\ queued[1][1].error = Null

\* ---------------------------------------------------------------------
\* The footer of the draft region (NewTransaction, TransactionError).

\* The variant and version tag of a split-balance error. The validation of
\* the family attaches one variant only.
errorType(error) == "SplitTransactionError"
errorVersion(error) == 1

TransactionErrorNeverOffers(error) == Null

\* TransactionError: the "Add Split" button, for version 1 of the
\* split-balance variant; nothing for any other error.
TransactionError(error) ==
    IF errorType(error) = "SplitTransactionError" /\ errorVersion(error) = 1
    THEN Some("AddSplit")
    ELSE Null

\* The button NewTransaction renders after Cancel: the error's button when
\* the root of the draft family carries an error, the Add button otherwise.
FooterButton(nt) ==
    IF nt[1].error # Null
    THEN TransactionError(nt[1].error)
    ELSE Some("Add")

\* The affordances on the screen in the draft region, which is rendered
\* while props.isAdding.
Offered ==
    IF props.isAdding /\ FooterButton(newTransactions) # Null
    THEN {FooterButton(newTransactions)[1]}
    ELSE {}

\* C24: while the draft region is shown, "Add Split" is offered exactly
\* when the root of the draft family carries an error and "Add" exactly
\* when it carries none, so exactly one of the two is offered.
C24_OneAffordance ==
    props.isAdding =>
        /\ "AddSplit" \in Offered <=> newTransactions[1].error # Null
        /\ "Add" \in Offered <=> newTransactions[1].error = Null
        /\ Cardinality(Offered) = 1

\* An unbalanced draft family is on the screen and offers "Add Split".
C24_Witness ==
    /\ props.isAdding
    /\ Len(newTransactions) >= 2
    /\ newTransactions[1].error # Null
    /\ Offered = {"AddSplit"}

-----------------------------------------------------------------------------
(* C25 *)

\* props.transactions with a scheduled (preview) row after the committed
\* rows.
ListScheduled == ListA \o << Row("preview/1", NoId) >>

\* The table with either column shown or hidden, with and without a
\* current account.
InitFields ==
    \E p \in {[showAccount |-> a, showCategory |-> c,
               onApplyRules |-> FALSE, currentAccountId |-> i,
               currentCategoryId |-> NoId, isAdding |-> TRUE] :
                 a, c \in BOOLEAN, i \in {NoId, "acct"}} :
        /\ state = InitialState("collapse")
        /\ timers = 0
        /\ cachedState = InitialState("collapse")
        /\ wrote = TRUE
        /\ propsTransactions = ListScheduled
        /\ prevSplitsExpanded = InitialState("collapse")
        /\ transactions =
              FilterTransactions(InitialState("collapse"), NullRef,
                                 ListScheduled)
        /\ lastAct = [type |-> "mount", id |-> NoId]
        /\ preSwitch = InitialState("collapse")
        /\ two = NoTwo
        /\ hist = << >>
        /\ props = p
        /\ newTransactions =
              makeTemporaryTransactions(p.currentAccountId,
                                        p.currentCategoryId, NoId)
        /\ queued = Null
        /\ phase = "idle"
        /\ shouldAdd = FALSE
        /\ savePending = FALSE
        /\ afterSaveFunc = NoFunc
        /\ rulesInFlight = {}
        /\ commitInFlight = {}
        /\ newNavigator = [editingId |-> "temp", focusedField |-> "date"]
        /\ tableNavigator = [editingId |-> NoId, focusedField |-> NoId]
        /\ nSaves = 0
        /\ nConts = 0
        /\ lastRan = NoRan
        /\ lastCall = NoCall

\* The user moves the focus to any field of any row of either region; the
\* draft root is split, which gives the draft region a child row.
NextFields ==
    \/ \E r \in 1..Len(ListScheduled), k \in 1..Len(AllFields) :
          EditTable(ListScheduled[r].id, AllFields[k])
    \/ \E i \in 1..2, k \in 1..Len(AllFields) : EditNew(i, AllFields[k])
    \/ SplitDraft
    \/ Render

SpecFields == InitFields /\ [][NextFields]_vars

\* C25: the ordered field set of a row is the one of its kind (normal with
\* account and category only when their columns are shown, split child,
\* preview), and a draft row has the field set of its kind without the
\* leading select; the navigator never edits a row outside that set.
C25_FieldsByKind ==
    LET KindOf(item) ==
            IF isPreviewId(item.id) THEN "preview"
            ELSE IF item.parent_id # NoId THEN "child"
            ELSE "normal"
        KindFields(kind) ==
            CASE kind = "normal" ->
                    << "select", "date" >>
                    \o (IF props.showAccount THEN << "account" >>
                        ELSE << >>)
                    \o << "payee", "notes" >>
                    \o (IF props.showCategory THEN << "category" >>
                        ELSE << >>)
                    \o << "debit", "credit", "cleared" >>
              [] kind = "child" ->
                    << "select", "payee", "notes", "category", "debit",
                       "credit" >>
              [] kind = "preview" -> << "select", "cleared" >>
        RowsShown ==
            {[id |-> transactions[i].id,
              parent_id |-> transactions[i].parent_id] :
                i \in 1..Len(transactions)}
            \cup {[id |-> newTransactions[i].id,
                   parent_id |-> newTransactions[i].parent_id] :
                    i \in 1..Len(newTransactions)}
    IN  /\ \A item \in RowsShown :
              getFields(item, props) =
                 IF isTemporaryId(item.id)
                 THEN Tail(KindFields(KindOf(item)))
                 ELSE KindFields(KindOf(item))
        /\ \A nav \in {newNavigator, tableNavigator} :
              \A item \in RowsShown :
                 nav.editingId = item.id =>
                    \E i \in 1..Len(KindFields(KindOf(item))) :
                       /\ KindFields(KindOf(item))[i] = nav.focusedField
                       /\ isTemporaryId(item.id) => i > 1

\* With the category column hidden, the user has moved the focus to the
\* category of a draft child and to the cleared flag of a preview row.
C25_Witness ==
    /\ ~props.showCategory
    /\ ~props.showAccount
    /\ Len(newTransactions) = 2
    /\ newNavigator = [editingId |-> newTransactions[2].id,
                       focusedField |-> "category"]
    /\ tableNavigator = [editingId |-> "preview/1",
                         focusedField |-> "cleared"]

-----------------------------------------------------------------------------
(* The amount codec: serializeTransaction and deserializeTransaction.      *)
(* A text is a sequence of one-character strings; the empty text is << >>. *)

EmptyText == << >>

Digits == << "0", "1", "2", "3", "4", "5", "6", "7", "8", "9" >>

\* The decimal numeral of a natural number.
RECURSIVE Numeral(_)
Numeral(n) ==
    IF n < 10 THEN << Digits[n + 1] >>
    ELSE Append(Numeral(n \div 10), Digits[(n % 10) + 1])

RECURSIVE Pad(_, _)
Pad(t, width) == IF Len(t) >= width THEN t ELSE Pad(<< "0" >> \o t, width)

\* The numeral of a natural number, its digits grouped by thousands.
RECURSIVE Grouped(_)
Grouped(n) ==
    IF n < 1000 THEN Numeral(n)
    ELSE Grouped(n \div 1000) \o << "," >> \o Pad(Numeral(n % 1000), 3)

\* integerToCurrency (loot-core/shared/util): minor units as currency
\* text, two decimals, thousands separated by commas.
integerToCurrency(n) ==
    LET a == IF n < 0 THEN -n ELSE n
    IN  (IF n < 0 THEN << "-" >> ELSE << >>)
        \o Grouped(a \div 100) \o << "." >> \o Pad(Numeral(a % 100), 2)

\* The number a digit sequence denotes.
RECURSIVE DigitsValue(_)
DigitsValue(t) ==
    IF t = << >> THEN 0
    ELSE 10 * DigitsValue(SubSeq(t, 1, Len(t) - 1))
         + (CHOOSE d \in 0..9 : Digits[d + 1] = t[Len(t)])

RECURSIVE Pow10(_)
Pow10(k) == IF k = 0 THEN 1 ELSE 10 * Pow10(k - 1)

\* A parsed number is a fraction n / d with d > 0.
Frac(n, d) == [n |-> n, d |-> d]

Negated(q) == Frac(-q.n, q.d)

\* currencyToAmount (loot-core/shared/util): the number a literal denotes,
\* commas dropped; Null when the text is no literal.
currencyToAmount(t) ==
    LET IsDigit(c) == \E d \in 1..10 : Digits[d] = c
        s == SelectSeq(t, LAMBDA c : c # ",")
        dots == {i \in 1..Len(s) : s[i] = "."}
        wellFormed == /\ \A i \in 1..Len(s) : IsDigit(s[i]) \/ s[i] = "."
                      /\ Cardinality(dots) <= 1
                      /\ \E i \in 1..Len(s) : IsDigit(s[i])
        point == IF dots = {} THEN Len(s) + 1 ELSE CHOOSE i \in dots : TRUE
        digits == SelectSeq(s, IsDigit)
    IN  IF wellFormed
        THEN Some(Frac(DigitsValue(digits), Pow10(Len(s) + 1 - point
                                   - (IF dots = {} THEN 0 ELSE 1))))
        ELSE Null

\* One operator applied to two parsed numbers; a division by zero has no
\* value.
Arith(op, l, r) ==
    CASE op = "+" -> Some(Frac(l.n * r.d + r.n * l.d, l.d * r.d))
      [] op = "-" -> Some(Frac(l.n * r.d - r.n * l.d, l.d * r.d))
      [] op = "*" -> Some(Frac(l.n * r.n, l.d * r.d))
      [] op = "/" -> IF r.n = 0 THEN Null
                     ELSE IF r.n > 0 THEN Some(Frac(l.n * r.d, l.d * r.n))
                     ELSE Some(Frac(-(l.n * r.d), -(l.d * r.n)))

\* evaluate(parse(text)) of loot-core/shared/arithmetic: literals joined
\* by + - * /, a literal with an optional leading minus; Null for text
\* that is no such expression.
RECURSIVE evaluate(_)
evaluate(t) ==
    LET isOp(c) == c \in {"+", "-", "*", "/"}
        additive == {i \in 2..Len(t) : t[i] \in {"+", "-"} /\ ~isOp(t[i - 1])}
        multiplicative == {i \in 1..Len(t) : t[i] \in {"*", "/"}}
        last(S) == CHOOSE i \in S : \A j \in S : j <= i
        at(i) == LET l == evaluate(SubSeq(t, 1, i - 1))
                     r == evaluate(SubSeq(t, i + 1, Len(t)))
                 IN  IF l = Null \/ r = Null THEN Null
                     ELSE Arith(t[i], l[1], r[1])
        literal == IF t # << >> /\ t[1] = "-"
                   THEN LET v == currencyToAmount(Tail(t))
                        IN  IF v = Null THEN Null ELSE Some(Negated(v[1]))
                   ELSE currencyToAmount(t)
    IN  IF additive # {} THEN at(last(additive))
        ELSE IF multiplicative # {} THEN at(last(multiplicative))
        ELSE literal

\* evalArithmetic(expression, defaultValue): white space is ignored, and
\* text that does not evaluate gives the default.
evalArithmetic(expression, defaultValue) ==
    LET v == evaluate(SelectSeq(expression, LAMBDA c : c # " "))
    IN  IF v = Null THEN defaultValue ELSE v

\* amountToInteger (loot-core/shared/util): Math.round(n * 100), which
\* rounds a half up.
amountToInteger(q) == (200 * q.n + q.d) \div (2 * q.d)

\* getScheduledAmount (loot-core/shared/schedules) of an amount that is a
\* number or unset: the amount itself.
getScheduledAmount(amount) == amount

\* The dates of the model that are valid calendar dates.
isDateValid(date) == date \in {"today", "yesterday"}

serializeZeroInDebit(transaction, showZeroInDeposit) ==
    LET amount == transaction.amount
        debit == IF amount # Null /\ amount[1] <= 0 THEN Some(-amount[1])
                 ELSE Null
        credit == IF amount # Null /\ amount[1] > 0 THEN amount ELSE Null
    IN  [f \in DOMAIN transaction \cup {"debit", "credit"} |->
            CASE f = "debit" ->
                    IF debit # Null THEN integerToCurrency(debit[1])
                    ELSE EmptyText
              [] f = "credit" ->
                    IF credit # Null THEN integerToCurrency(credit[1])
                    ELSE EmptyText
              [] OTHER -> transaction[f]]

\* serializeTransaction: the row with its amount as two texts. The amount
\* of a preview row is a number (an unset one counts as 0).
serializeTransaction(transaction, showZeroInDeposit) ==
    LET isInverse ==
            "_inverse" \in DOMAIN transaction /\ transaction._inverse
        amount ==
            IF isPreviewId(transaction.id)
            THEN Some((IF isInverse THEN -1 ELSE 1)
                         * num(getScheduledAmount(transaction.amount)))
            ELSE transaction.amount
        isZero == amount # Null /\ amount[1] = 0
        debit == IF isZero
                 THEN (IF showZeroInDeposit THEN Null ELSE Some(0))
                 ELSE IF amount # Null /\ amount[1] < 0
                      THEN Some(-amount[1]) ELSE Null
        credit == IF isZero
                  THEN (IF showZeroInDeposit THEN Some(0) ELSE Null)
                  ELSE IF amount # Null /\ amount[1] > 0
                       THEN amount ELSE Null
    IN  [f \in DOMAIN transaction \cup {"debit", "credit"} |->
            CASE f = "debit" ->
                    IF debit # Null THEN integerToCurrency(debit[1])
                    ELSE EmptyText
              [] f = "credit" ->
                    IF credit # Null THEN integerToCurrency(credit[1])
                    ELSE EmptyText
              [] f = "date" ->
                    IF isDateValid(transaction.date) THEN transaction.date
                    ELSE NoId
              [] OTHER -> transaction[f]]

\* The part of deserializeTransaction after the amount is known.
Deserialized(transaction, originalTransaction, amount) ==
    [f \in (DOMAIN transaction \ {"debit", "credit"}) \cup {"amount"} |->
        CASE f = "amount" -> amount
          [] f = "date" ->
                IF transaction.date # NoId THEN transaction.date
                ELSE IF originalTransaction.date # NoId
                     THEN originalTransaction.date
                     ELSE currentDay
          [] OTHER -> transaction[f]]

deserializeDebitNotNegated(transaction, originalTransaction) ==
    LET text == IF transaction.debit # EmptyText THEN transaction.debit
                ELSE transaction.credit
        amount == evalArithmetic(text, Null)
    IN  Deserialized(transaction, originalTransaction,
                     IF amount # Null THEN Some(amountToInteger(amount[1]))
                     ELSE originalTransaction.amount)

deserializeNullAsZero(transaction, originalTransaction) ==
    LET parsed == evalArithmetic(transaction.debit, Null)
        amount == IF transaction.debit # EmptyText
                  THEN (IF parsed # Null THEN Some(Negated(parsed[1]))
                        ELSE Null)
                  ELSE evalArithmetic(transaction.credit, Null)
    IN  Deserialized(transaction, originalTransaction,
                     IF amount # Null THEN Some(amountToInteger(amount[1]))
                     ELSE Some(0))

\* deserializeTransaction: the debit text when there is one, negated, and
\* the credit text otherwise; the original amount when nothing parses.
deserializeTransaction(transaction, originalTransaction) ==
    LET parsed == evalArithmetic(transaction.debit, Null)
        amount == IF transaction.debit # EmptyText
                  THEN (IF parsed # Null THEN Some(Negated(parsed[1]))
                        ELSE Null)
                  ELSE evalArithmetic(transaction.credit, Null)
    IN  Deserialized(transaction, originalTransaction,
                     IF amount # Null THEN Some(amountToInteger(amount[1]))
                     ELSE originalTransaction.amount)

\* Transaction.onUpdate(name, value) for a field of the rows of the model
\* (no notes, no payee, accounts on budget): Null when the value is the
\* one shown, otherwise the row state set and the transaction saved.
onUpdate(transaction, originalTransaction, name, value, showZeroInDeposit) ==
    IF transaction[name] = value THEN Null
    ELSE LET set == [transaction EXCEPT ![name] = value]
             newTransaction ==
                 IF name = "credit" THEN [set EXCEPT !.debit = EmptyText]
                 ELSE IF name = "debit"
                      THEN [set EXCEPT !.credit = EmptyText]
                      ELSE set
             deserialized ==
                 deserializeTransaction(newTransaction, originalTransaction)
         IN  Some([transaction |->
                      serializeTransaction(deserialized, showZeroInDeposit),
                   saved |-> deserialized])

\* showZeroInDeposit of the rows of the draft region.
isDeposit(nt) == num(nt[1].amount) > 0

\* The texts the user types into an amount cell.
AmountTexts ==
    { EmptyText,
      << "1", ".", "0", "0" >>,
      << "1" >>,
      << "0" >>,
      << "1", ",", "0", "0", "0", ".", "0", "0" >>,
      << "1", "+", "1" >>,
      << "3", "*", "0", ".", "5" >>,
      << "1", "/", "8" >>,
      << "-", "1", ".", "0", "0" >>,
      << "1", "+" >>,
      << "x" >> }

AmountFields == {"debit", "credit"}

\* The user types text into the amount cell being edited of a draft row,
\* whose state is the serialized row as rendered.
UpdateAmount(i, name, text) ==
    /\ props.isAdding
    /\ i \in 1..Len(newTransactions)
    /\ newNavigator = [editingId |-> newTransactions[i].id,
                       focusedField |-> name]
    /\ LET shown == serializeTransaction(newTransactions[i],
                                         isDeposit(newTransactions))
           r == onUpdate(shown, newTransactions[i], name, text,
                         isDeposit(newTransactions))
       IN  /\ r # Null
           /\ SaveDraftSync(r[1].saved)

NextCodec ==
    \/ \E i \in 1..2, name \in AmountFields, text \in AmountTexts :
          UpdateAmount(i, name, text)
    \/ \E i \in 1..2, name \in AmountFields : EditNew(i, name)
    \/ SplitDraft
    \/ Render

SpecCodec == InitFamily /\ [][NextCodec]_vars

-----------------------------------------------------------------------------
(* C26 *)

\* The rows of the draft region, rendered or awaiting the next render.
DraftRows ==
    {newTransactions[i] : i \in 1..Len(newTransactions)}
    \cup (IF queued = Null THEN {}
          ELSE {queued[1][i] : i \in 1..Len(queued[1])})

\* Amounts on either side of zero, of a digit, of a unit and of a thousand.
RoundTripAmounts ==
    {-1234567, -100000, -99999, -1000, -101, -100, -99, -10, -9, -1, 0,
     1, 9, 10, 99, 100, 101, 1000, 99999, 100000, 1234567}

\* C26: for every set amount and either value of showZeroInDeposit,
\* deserializing the unmodified output of serialize gives the amount back,
\* whatever the original transaction passed to deserialize (one with an
\* unset amount, ones with amounts no row of the model has).
C26_RoundTrip ==
    LET RoundTrips(row) ==
            \A f \in BOOLEAN, o \in {Null, Some(7), Some(-7)} :
               deserializeTransaction(serializeTransaction(row, f),
                                      [row EXCEPT !.amount = o]).amount
                  = row.amount
    IN  /\ \A row \in DraftRows : row.amount # Null => RoundTrips(row)
        /\ \A a \in RoundTripAmounts :
              RoundTrips([newTransactions[1] EXCEPT !.amount = Some(a)])

\* The user has typed 1,000.00 as the debit of a row and 1/8 as the credit
\* of another, and both amounts are in the buffer rendered.
C26_Witness ==
    /\ Len(newTransactions) = 2
    /\ newTransactions[1].amount = Some(-100000)
    /\ newTransactions[2].amount = Some(13)
    /\ serializeTransaction(newTransactions[1], FALSE).debit
          = << "1", ",", "0", "0", "0", ".", "0", "0" >>

-----------------------------------------------------------------------------
(* C27 *)

-----------------------------------------------------------------------------
(* C28 *)

\* C28: deserialize has a value for every pair of amount texts (one of
\* them empty, or both filled with text that parses or does not): the
\* original amount when both are empty or when the field read (the debit
\* when it is not empty, otherwise the credit) does not parse; otherwise
\* the debit, negated, or the credit, in minor units.
C28_AmountText ==
    LET AmountTextPairs ==
            {<< t, EmptyText >> : t \in AmountTexts}
            \cup {<< EmptyText, t >> : t \in AmountTexts}
            \cup ({<< "1" >>, << "x" >>}
                     \X {<< "1", "+", "1" >>, << "1", "+" >>})
        Typed(row, debit, credit) ==
            deserializeTransaction(
                [serializeTransaction(row, FALSE) EXCEPT !.debit = debit,
                                                         !.credit = credit],
                row).amount
    IN  \A row \in DraftRows : \A pair \in AmountTextPairs :
           LET debit == pair[1]
               credit == pair[2]
               text == IF debit # EmptyText THEN debit ELSE credit
               parsed == evalArithmetic(text, Null)
               amount == Typed(row, debit, credit)
           IN  IF parsed = Null
               THEN amount = row.amount
               ELSE IF debit # EmptyText
                    THEN amount = Some(amountToInteger(Negated(parsed[1])))
                    ELSE amount = Some(amountToInteger(parsed[1]))

\* The user has typed text that does not parse into the debit of a row
\* with an amount, and the save leaves the amount as it was.
C28_Witness ==
    /\ phase = "savedNew"
    /\ newNavigator.focusedField = "debit"
    /\ queued = Some(newTransactions)
    /\ \E i \in 1..Len(newTransactions) :
          /\ newTransactions[i].id = newNavigator.editingId
          /\ newTransactions[i].amount = Some(-200)

-----------------------------------------------------------------------------
(* C29 *)

\* C29: when the user sets the debit or the credit of a row to the empty
\* text, the amount saved for the row is not the value the other field
\* showed, and nothing of the cleared value is left in it: it is zero or
\* unset.
C29_ClearedValueGone ==
    [][\A i \in 1..2, name \in AmountFields :
          UpdateAmount(i, name, EmptyText) =>
             LET shown == serializeTransaction(newTransactions[i],
                                               isDeposit(newTransactions))
                 other == IF name = "debit" THEN shown.credit
                          ELSE shown.debit
                 saved == queued'[1][i].amount
             IN  /\ other # EmptyText =>
                       saved # Some(amountToInteger(
                                       evalArithmetic(other, Null)[1]))
                 /\ saved \in {Null, Some(0)}]_vars

-----------------------------------------------------------------------------
(* C30 *)

\* C30: at most one settle timer is outstanding at any time, whatever
\* actions the reducer has handled: a timer is scheduled only when none
\* scheduled before is still pending.
C30_OneTimer == timers <= 1

-----------------------------------------------------------------------------
(* C31 *)

\* C31: a toggle-split or an open-split handled while no transition is in
\* flight causes no write of the expansion state to the external cache.
C31_NoWriteOnToggle ==
    [][/\ lastAct'.type \in {"toggle-split", "open-split"}
       /\ state.transitionId = NoId
       => ~wrote']_vars

-----------------------------------------------------------------------------
(* C32 *)

\* The owning view is torn down: SplitsExpandedProvider unmounts. Its
\* effects have no cleanup, so the timers scheduled stay scheduled.
teardown ==
    /\ lastAct.type # "unmount"
    /\ lastAct' = [type |-> "unmount", id |-> NoId]
    /\ wrote' = FALSE
    /\ UNCHANGED << state, timers, cachedState, preSwitch, two, hist,
                    filterVars, saveVars >>

timerAfterTeardownDispatches ==
    /\ lastAct.type = "unmount"
    /\ timers > 0
    /\ state' = FinishSwitchMode(state)
    /\ timers' = timers - 1
    /\ cachedState' = FinishSwitchMode(state)
    /\ wrote' = TRUE
    /\ UNCHANGED << lastAct, preSwitch, two, hist, filterVars, saveVars >>

\* A settle timer fires after the teardown: its callback does nothing but
\* dispatch finish-switch-mode, and a dispatch to an unmounted reducer is
\* dropped: no reducer call, no render, no effect.
timerAfterTeardown ==
    /\ lastAct.type = "unmount"
    /\ timers > 0
    /\ timers' = timers - 1
    /\ wrote' = FALSE
    /\ UNCHANGED << state, cachedState, lastAct, preSwitch, two, hist,
                    filterVars, saveVars >>

NextTeardown ==
    \/ lastAct.type # "unmount" /\ NextLive
    \/ teardown
    \/ timerAfterTeardown

SpecTeardown == Init /\ [][NextTeardown]_vars

-----------------------------------------------------------------------------
(* C33 *)

\* The Add Split button of the draft region: onAddSplit(transactions[0].id),
\* while the family has fewer than MaxRows rows.
AddSplitButton ==
    /\ "AddSplit" \in Offered
    /\ phase = "idle"
    /\ Len(newTransactions) < MaxRows
    /\ Apply(onAddSplitDraft(newTransactions, newTransactions[1].id, Here,
                             props))
    /\ UNCHANGED << expVars, filterVars, props, newTransactions,
                    savePending, afterSaveFunc, rulesInFlight,
                    commitInFlight, nSaves, nConts >>
    /\ lastRan' = NoRan

\* Both regions with every focus move of the controller: the draft is
\* opened, split, grown by Enter and by the Add Split button, committed or
\* refused for want of an account, closed; committed rows are split and
\* grown by Enter; the user moves the focus to any field.
NextNav ==
    \/ SaveDebit
    \/ SplitDraft
    \/ \E m \in BOOLEAN : Len(newTransactions) < MaxRows /\ onCheckNewEnter(m)
    \/ AddButton
    \/ AddSplitButton
    \/ onCloseAddTransaction
    \/ OpenAddTransaction
    \/ \E i \in {1, Len(newTransactions)} :
          \E f \in {"date", "account", "debit"} : EditNew(i, f)
    \/ \E id \in {"c1b", "n1"}, f \in {"select", "date", "debit"} :
          EditTable(id, f)
    \/ phase = "idle" /\ onCheckEnter
    \/ \E a \in BOOLEAN : phase = "idle" /\ onSplit("n1", a)
    \/ Render

InitNav == InitFields /\ props.showCategory

SpecNav == InitNav /\ [][NextNav]_vars

\* C33: in every state the focused field of each navigator is a field of
\* the row it edits, by the kind of that row (normal with the columns
\* shown, split child, preview; a draft row without select): no focus move
\* of the controller leaves a navigator outside the field set of its row.
C33_FocusInFieldSet ==
    LET Fields(id, isChild) ==
            LET all == IF isPreviewId(id) THEN {"select", "cleared"}
                       ELSE IF isChild
                       THEN {"select", "payee", "notes", "category",
                             "debit", "credit"}
                       ELSE {"select", "date", "payee", "notes", "debit",
                             "credit", "cleared"}
                            \cup (IF props.showAccount THEN {"account"}
                                  ELSE {})
                            \cup (IF props.showCategory THEN {"category"}
                                  ELSE {})
            IN  IF isTemporaryId(id) THEN all \ {"select"} ELSE all
        DraftShown ==
            {newTransactions[i] : i \in 1..Len(newTransactions)}
            \cup (IF queued = Null THEN {}
                  ELSE {queued[1][i] : i \in 1..Len(queued[1])})
    IN  /\ \A row \in DraftShown :
              newNavigator.editingId = row.id =>
                 newNavigator.focusedField
                    \in Fields(row.id, row.parent_id # NoId)
        /\ \A i \in 1..Len(propsTransactions) :
              tableNavigator.editingId = propsTransactions[i].id =>
                 tableNavigator.focusedField
                    \in Fields(propsTransactions[i].id,
                               propsTransactions[i].parent_id # NoId)
        /\ tableNavigator.editingId \in {NewCommittedId, NewSplitId} =>
              tableNavigator.focusedField
                 \in Fields(tableNavigator.editingId, TRUE)

\* The Add Split button was pressed while the date of the draft root was
\* being edited: the new child has no date field and the focus stays.
C33_Witness ==
    /\ queued # Null
    /\ Len(queued[1]) = Len(newTransactions) + 1
    /\ newTransactions[1].error # Null
    /\ newNavigator = [editingId |-> "temp", focusedField |-> "date"]
    /\ lastCall.fn = "none"
    /\ phase # "idle"

-----------------------------------------------------------------------------
(* C34 *)

\* A second save of a draft row while saves await props.onApplyRules: the
\* user sets the account of the row being edited. The transaction saved is
\* made from the state of the row's Transaction component, which is the
\* transaction saved before while the row passed down has not changed
\* since, and the row passed down otherwise.
SaveOverlapping ==
    \E i \in 1..Len(newTransactions) :
       LET row == newTransactions[i]
           before == {s \in rulesInFlight :
                         [s.tx EXCEPT !.amount = row.amount] = row}
           shown == IF before = {} THEN row
                    ELSE (CHOOSE s \in before :
                             \A o \in before : o.n <= s.n).tx
       IN  /\ props.isAdding
           /\ props.onApplyRules
           /\ phase = "idle"
           /\ rulesInFlight # {}
           /\ nSaves < MaxSaves + 1
           /\ newNavigator = [editingId |-> row.id,
                              focusedField |-> "account"]
           /\ shown.account # "acct"
           /\ rulesInFlight' =
                 rulesInFlight
                    \cup {[n |-> nSaves + 1,
                           tx |-> [shown EXCEPT !.account = "acct"]]}
           /\ nSaves' = nSaves + 1
           /\ savePending' = TRUE
           /\ phase' = "savedNew"
           /\ UNCHANGED << expVars, filterVars, props, newTransactions,
                           queued, shouldAdd, afterSaveFunc, commitInFlight,
                           newNavigator, tableNavigator, nConts >>
           /\ lastRan' = NoRan
           /\ lastCall' = NoCall

NextOverlap ==
    \/ SaveEditedDraftField({"debit"})
    \/ SaveOverlapping
    \/ \E s \in rulesInFlight : \E t \in RulesResult(s.tx) : RulesSettle(s, t)
    \/ SplitDraft
    \/ \E i \in 1..Len(newTransactions), f \in {"debit", "account"} :
          EditNew(i, f)
    \/ Render

SpecOverlap == InitSave /\ [][NextOverlap]_vars

\* C34: when a second draft save started before the first had written its
\* result, then once both have settled and the buffer is rendered, the
\* buffer has both patches: the amount of the first and the account of the
\* second.
C34_NoLostUpdate ==
    /\ nSaves = MaxSaves + 1
    /\ rulesInFlight = {}
    /\ queued = Null
    /\ phase = "idle"
    => /\ \E i \in 1..Len(newTransactions) :
             newTransactions[i].amount = Some(-1)
       /\ \E i \in 1..Len(newTransactions) :
             newTransactions[i].account = "acct"

-----------------------------------------------------------------------------
(* C35 *)

\* C35: while the draft region is closed, which resets the buffer to a
\* fresh draft that the user cannot edit, the buffer stays that fresh draft:
\* one row 'temp' with an unset amount and no children, whatever draft save
\* settles meanwhile.
C35_FreshDraftKept ==
    LET buffer == IF queued # Null THEN queued[1] ELSE newTransactions
    IN  ~props.isAdding /\ phase = "idle" =>
           /\ Len(buffer) = 1
           /\ buffer[1].amount = Null
           /\ ~buffer[1].is_parent

-----------------------------------------------------------------------------
(* C36 *)

\* C36: when the filter is recomputed while a transition is already
\* running (a toggle or a change of the list with transitionId non-null
\* before and after), the split children before the anchor are again
\* filtered with the state that held just before switchMode.
C36_SnapshotKept ==
    [][ /\ state.transitionId # NoId
        /\ state'.transitionId # NoId
        /\ << state, propsTransactions >>' # << state, propsTransactions >>
        => (\A i \in ChildIndexes :
               i - 1 < FindIndex(propsTransactions, state.transitionId)
               => (IsVisible(propsTransactions[i].id)
                      <=> expanded(preSwitch,
                                   propsTransactions[i].parent_id)))' ]_vars

-----------------------------------------------------------------------------
(* C37 *)

-----------------------------------------------------------------------------
(* C38 *)

\* C38: switchMode with a null (or absent) anchor id, outside a transition,
\* flips mode and clears ids but starts no transition: transitionId stays
\* null, no settle timer is scheduled, the new state is written to the cache
\* in the same step, and a switchMode following at once is accepted (the
\* reducer flips mode again instead of handing the state back).
C38_NullAnchorSwitch ==
    [][ state.transitionId = NoId /\ lastAct'.id = NoId /\ switchMode(NoId)
        => /\ state'.mode # state.mode
           /\ state'.ids = {}
           /\ state'.transitionId = NoId
           /\ timers' = timers
           /\ wrote'
           /\ cachedState' = state'
           /\ \A id \in AnchorIds :
                 /\ ~SameObject(state', [type |-> "switch-mode", id |-> id])
                 /\ SwitchMode(state', id).mode = state.mode ]_vars

C38_Witness ==
    /\ lastAct = [type |-> "switch-mode", id |-> NoId]
    /\ two.n = 2
    /\ two.id = NoId
    /\ ~two.setMode
    /\ state.mode = two.modeBefore
    /\ state.transitionId = NoId
    /\ timers = 0
    /\ cachedState = state

-----------------------------------------------------------------------------
(* C39 *)

\* The four handlers of TransactionTable that take the id of a row of
\* either region: onSave (of the row with a debit typed into it), onDelete,
\* onSplit and onAddSplit.
Handle(op, id) ==
    CASE op = "save" ->
            IF isTemporaryId(id)
            THEN /\ HasRow(newTransactions, id)
                 /\ \E t \in Patches(RowOf(newTransactions, id), "debit") :
                       SaveDraft(t)
            ELSE tableNavigator.editingId = id /\ SaveCommitted
      [] op = "delete" -> onDelete(id)
      [] op = "split" ->
            IF isTemporaryId(id)
            THEN id = "temp" /\ (SplitDraft \/ SplitDraftAgain)
            ELSE phase = "idle" /\ \E a \in BOOLEAN : onSplit(id, a)
      [] op = "addSplit" ->
            /\ phase = "idle"
            /\ Apply(IF isTemporaryId(id)
                     THEN onAddSplitDraft(newTransactions, id, Here, props)
                     ELSE onAddSplitCommitted(propsTransactions, id, Here,
                                              props))
            /\ UNCHANGED << expVars, filterVars, props, newTransactions,
                            savePending, afterSaveFunc, rulesInFlight,
                            commitInFlight, nSaves, nConts >>
            /\ lastRan' = NoRan

NextRoute ==
    \/ \E id \in {"temp", "temp/1", "c1b"} :
          /\ HasRow(newTransactions, id) \/ HasRow(propsTransactions, id)
          /\ Len(newTransactions) < MaxRows
          /\ \E op \in {"save", "delete", "split", "addSplit"} :
                Handle(op, id)
    \/ \E s \in commitInFlight : CommittedSettle(s, propsTransactions)
    \/ Render

SpecRoute == InitFamily /\ [][NextRoute]_vars

\* C39: save, delete, split and addSplit of a row of the draft buffer
\* change nothing of the committed region and call none of props.onSave,
\* props.onSplit and props.onAddSplit; the same operations on a row of the
\* committed list leave the buffer, the draft saves in flight and the draft
\* editing position unchanged: save, split and addSplit call the
\* collaborator with the id, delete changes nothing at all.
C39_RoutedByTier ==
    [][ \A id \in {"temp", "temp/1", "c1b"} :
        \A op \in {"save", "delete", "split", "addSplit"} :
           /\ phase = "idle"
           /\ HasRow(newTransactions, id) \/ HasRow(propsTransactions, id)
           /\ Handle(op, id)
           => IF HasRow(newTransactions, id)
              THEN /\ UNCHANGED << state, propsTransactions, transactions,
                                   commitInFlight, tableNavigator >>
                   /\ lastCall'.fn # "onSave"
                   /\ lastCall'.addSplit = << >>
                   /\ lastCall'.fn = "onSplit" => lastCall'.arg = << id >>
                   /\ op # "delete" =>
                         (queued' # queued \/ rulesInFlight' # rulesInFlight)
              ELSE /\ UNCHANGED << newTransactions, queued, rulesInFlight,
                                   newNavigator, shouldAdd >>
                   /\ op = "save" =>
                         /\ lastCall' = Call("onSave", FALSE, << id >>)
                         /\ commitInFlight' # commitInFlight
                   /\ op = "split" =>
                         /\ lastCall'.fn = "onSplit"
                         /\ lastCall'.arg[1] = id
                         /\ Len(lastCall'.arg) = 2
                   /\ op = "addSplit" => lastCall'.addSplit = << id >>
                   /\ op = "delete" =>
                         UNCHANGED << expVars, filterVars, props, phase,
                                      savePending, afterSaveFunc,
                                      commitInFlight, tableNavigator,
                                      nSaves, nConts >> ]_vars

C39_Witness ==
    /\ Len(newTransactions) = 2
    /\ newTransactions[1].amount # Null
    /\ lastCall.addSplit = << "c1b" >>
    /\ tableNavigator.editingId = NewCommittedId

-----------------------------------------------------------------------------
(* C40 *)

====
